---- MODULE Spec2Model ----
(***************************************************************************)
(* A model of notte's DOM node graph (src/notte/browser/dom_tree.py), of   *)
(* its selector-resolution pipeline (src/notte/pipe/resolution.py), of the *)
(* retry wrapper of the action listing pipes, of the Conversation and of   *)
(* the environment (src/notte/env.py).                                     *)
(*                                                                         *)
(* Conventions.  A Python Optional is a sequence of length at most one:    *)
(* None is << >> and a present value v is << v >>.  A call's result is a   *)
(* record [kind, val, err]: kind "ok" with the returned value in val,      *)
(* kind "none" for a returned None, kind "raise" with the exception class  *)
(* in err.  Text is a TLA+ string.                                         *)
(*                                                                         *)
(* The specifications share the variables; each leaves alone those of the  *)
(* others.  Spec runs the resolution pipeline, one forward() call after    *)
(* another, on one graph.  SpecTree draws an accessibility payload, builds *)
(* its graph and applies one tree operation to it.  The others are         *)
(* introduced in their sections.                                           *)
(***************************************************************************)
EXTENDS Integers, Sequences, FiniteSets, TLC

VARIABLES
    \* ---- SpecTree: the tree algorithms
    raw,        \* the accessibility payload (A11yNode)
    dom,        \* DomNode.from_a11y_node(raw)
    op,         \* the operation applied, "" before any
    arg,        \* its argument(s), as a tuple
    ret,        \* its result record
    \* ---- Spec: the resolution pipeline
    selectors,  \* computed_attributes.selectors of each graph object
    pc,         \* where the running forward() call is suspended
    req,        \* action.id of the running call
    node,       \* Optional: the InteractionDomNode find() returned
    bundle,     \* Optional: the local `selectors` of compute_attributes
    cand,       \* index of the candidate selector of the running loop
    frame,      \* index of the frame of the running loop
    page,       \* the live page: what count() answers for the current
                \* candidate in each frame
    seen,       \* history: how the frames answered for each candidate
                \* the loop is through with
    lookups,    \* history: fallback lookups started by the running call
    nprobes,    \* history: count() probes per (candidate, frame) pair
    locator,    \* Optional: the (selector, frame) pair accepted
    probed,     \* the state probes' answers, a record of Optionals
    order,      \* history: the state probes in the order they were made
    outcome,    \* result record of the running or last finished call
    \* ---- the diagnostic buffer, shared by every DomAttributes.init
    buffer,     \* DomErrorBuffer._buffer: key -> list of samples
    logged,     \* Optional: the record the last step gave to logger.error
    threads,    \* SpecBufferThreads: each thread's position and locals
    \* ---- SpecRetry: RetryPipeWrapper
    retry,      \* the wrapper's max_tries and the locals of its forward()
    \* ---- SpecConversation: Conversation
    conversation,   \* the fields of the Conversation and its last call
    \* ---- SpecEnv: NotteEnv
    env         \* the environment's config, trajectory, _context and the
                \* call that runs

treeVars == <<raw, dom, op, arg, ret>>
bufVars == <<buffer, logged, threads>>
callVars == <<pc, req, node, bundle, cand, frame, page, seen,
              lookups, nprobes, locator, probed, order, outcome>>
resVars == <<selectors, pc, req, node, bundle, cand, frame, page, seen,
             lookups, nprobes, locator, probed, order, outcome>>
vars == <<raw, dom, op, arg, ret, selectors, pc, req, node, bundle, cand,
          frame, page, seen, lookups, nprobes, locator, probed, order,
          outcome, buffer, logged, threads, retry, conversation, env>>
envVars == <<conversation, env>>

----------------------------------------------------------------------------
(* Bounds *)

\* Most nodes in a drawn accessibility payload.
MaxNodes == 3
\* Most live frames of the page.
MaxFrames == 2

----------------------------------------------------------------------------
(* Python values *)

None == << >>
Some(v) == << v >>

Ok(v) == [kind |-> "ok", val |-> << v >>, err |-> ""]
ReturnsNone == [kind |-> "none", val |-> << >>, err |-> ""]
Raise(e) == [kind |-> "raise", val |-> << >>, err |-> e]
NoCall == [kind |-> "", val |-> << >>, err |-> ""]

\* No RetryPipeWrapper was made: nothing of it runs.
NoRetry ==
    [max_tries |-> 0, pc |-> "idle", calls |-> << >>, errors |-> << >>,
     last_error |-> None, traced |-> None, outcome |-> NoCall,
     previous_action_list |-> << >>, incremental_calls |-> << >>]

RetryIdle == retry = NoRetry

\* No Conversation and no NotteEnv were made.
NoConversation ==
    [history |-> << >>, autosize |-> FALSE, max_tokens |-> 0,
     total_tokens |-> 0, convert_tools_to_assistant |-> FALSE,
     op |-> "", removed |-> 0]

NoEnv ==
    [max_steps |-> 0, max_retry |-> 0, trajectory |-> << >>,
     context |-> None, pc |-> "idle", call |-> "", action_id |-> "",
     retry |-> 0, reobserved |-> 0, snapshot_changed |-> FALSE,
     preobserve |-> "", resolved |-> FALSE, executed |-> FALSE,
     outcome |-> NoCall]

EnvIdle ==
    /\ conversation = NoConversation
    /\ env = NoEnv

\* str.join of a list of strings
RECURSIVE Join(_, _)
Join(sep, texts) ==
    IF Len(texts) = 0 THEN ""
    ELSE IF Len(texts) = 1 THEN texts[1]
    ELSE texts[1] \o sep \o Join(sep, Tail(texts))

\* list.extend over a list of lists
RECURSIVE Concat(_)
Concat(lists) ==
    IF Len(lists) = 0 THEN << >> ELSE Head(lists) \o Concat(Tail(lists))

----------------------------------------------------------------------------
(* Node roles and kinds (notte.browser.node_type) *)

\* The roles of the NodeRole enum the model uses; any other string is an
\* unknown role, which NodeRole.from_value leaves a plain str.
KnownRoles == {"button", "text", "WebArea", "dialog"}

IsStrRole(role) == role \notin KnownRoles

\* NodeRole.category()
RoleCategory(role) ==
    CASE role = "button" -> "INTERACTION"
      [] role = "text" -> "TEXT"
      [] OTHER -> "STRUCTURAL"

NodeTypes == {"TEXT", "INTERACTION", "OTHER"}

----------------------------------------------------------------------------
(* DomAttributes *)

\* The state fields of DomAttributes the tree algorithms read.
StateFields == {"hidden", "visible", "enabled"}

\* The fields of DomAttributes the model keeps: the state fields, the
\* field the key "class" is stored in, and a field whose hyphenated key
\* starts with a disallowed prefix.
AttributeFields == StateFields \cup {"class_name", "data_src"}

\* DomAttributes.from_a11y_node / DomAttributes.init: every field is the
\* payload's value for that key, None when the key is absent.
DomAttributesFromA11yNode(n) ==
    [key \in AttributeFields |->
        IF key \in DOMAIN n.attrs THEN Some(n.attrs[key]) ELSE None]

----------------------------------------------------------------------------
(* DomNode *)

\* DomNode.__init__ and __post_init__: subtree_ids is the node's own id
\* followed by the children's subtree_ids, in order.
DomNodeInitNoOwnId(id, type, role, text, children, attributes, computed) ==
    [id |-> id, type |-> type, role |-> role, text |-> text,
     children |-> children, attributes |-> attributes, computed |-> computed,
     subtree_ids |->
        Concat([i \in 1..Len(children) |-> children[i].subtree_ids])]

DomNodeInit(id, type, role, text, children, attributes, computed) ==
    [id |-> id, type |-> type, role |-> role, text |-> text,
     children |-> children, attributes |-> attributes, computed |-> computed,
     subtree_ids |->
        id \o Concat([i \in 1..Len(children) |-> children[i].subtree_ids])]

\* The node_type of from_a11y_node: by the id, then TEXT for a role of
\* NodeRole whose category is TEXT.
ClassifyTypeByIdFirst(id, role) ==
    IF id # None THEN "INTERACTION"
    ELSE IF ~IsStrRole(role) /\ RoleCategory(role) = "TEXT" THEN "TEXT"
    ELSE "OTHER"

ClassifyType(id, role) ==
    IF ~IsStrRole(role) /\ RoleCategory(role) = "TEXT" THEN "TEXT"
    ELSE IF id # None THEN "INTERACTION"
    ELSE "OTHER"

\* bool(node.get(key, False)) for a key that holds a bool when present.
BoolOrFalse(given) == IF given = None THEN FALSE ELSE given[1]

\* DomNode.from_a11y_node.  obj names the ComputedDomAttributes object made
\* for the node (its path from the root): the object is shared, not copied,
\* by every node that is later built from this one.
RECURSIVE FromA11yNode(_, _)
FromA11yNode(n, path) ==
    LET children == [i \in 1..Len(n.children) |->
                        FromA11yNode(n.children[i], Append(path, i))]
        node_type == ClassifyType(n.id, n.role)
    IN  DomNodeInit(n.id, node_type, n.role, n.name, children,
                    Some(DomAttributesFromA11yNode(n)),
                    [in_viewport |-> n.in_viewport,
                     is_interactive |-> BoolOrFalse(n.engine.is_interactive),
                     is_top_element |-> BoolOrFalse(n.engine.is_top_element),
                     is_editable |-> FALSE,
                     shadow_root |-> BoolOrFalse(n.engine.shadow_root),
                     highlight_index |-> n.engine.highlight_index,
                     obj |-> path])

\* InteractionDomNode.__init__: its __post_init__ refuses a missing id and
\* any child before it runs DomNode.__post_init__.
InteractionDomNodeInit(id, role, text, children, attributes, computed) ==
    IF id = None THEN Raise("InvalidInternalCheckError")
    ELSE IF Len(children) > 0 THEN Raise("InvalidInternalCheckError")
    ELSE Ok(DomNodeInit(id, "INTERACTION", role, text, children, attributes,
                        computed))

\* DomNode.to_interaction_node
ToInteractionNodeAnyType(n) ==
    InteractionDomNodeInit(n.id, n.role, n.text, << >>, n.attributes,
                           n.computed)

ToInteractionNode(n) ==
    IF n.type # "INTERACTION" THEN Raise("InvalidInternalCheckError")
    ELSE InteractionDomNodeInit(n.id, n.role, n.text, << >>, n.attributes,
                                n.computed)

\* DomNode.find: the node itself, then the children in order; an exception
\* of the coercion propagates.
RECURSIVE Find(_, _), FindInChildren(_, _, _)
FindLast(n, id) ==
    LET below == FindInChildren(n.children, 1, id)
    IN  IF below.kind # "none" THEN below
        ELSE IF n.id = Some(id) THEN ToInteractionNode(n)
        ELSE ReturnsNone

Find(n, id) ==
    IF n.id = Some(id) THEN ToInteractionNode(n)
    ELSE FindInChildren(n.children, 1, id)

FindInChildren(children, i, id) ==
    IF i > Len(children) THEN ReturnsNone
    ELSE LET found == Find(children[i], id)
         IN  IF found.kind # "none" THEN found
             ELSE FindInChildren(children, i + 1, id)

\* The loop body of DomNode.inner_text: is the child's text appended?
ChildTextKeptAsCommented(child, child_text) ==
    IF child_text = "" THEN FALSE
    ELSE IF child.attributes = None THEN TRUE
    ELSE LET a == child.attributes[1]
         IN  ~(a.hidden = Some(TRUE) \/ a.visible = Some(FALSE)
               \/ a.enabled = Some(FALSE))

ChildTextKept(child, child_text) ==
    IF child_text = "" THEN FALSE
    ELSE IF child.attributes = None THEN TRUE
    ELSE LET a == child.attributes[1]
         IN  IF a.hidden # None /\ ~a.hidden[1] THEN FALSE
             ELSE IF a.visible # None /\ ~a.visible[1] THEN FALSE
             ELSE IF a.enabled # None /\ ~a.enabled[1] THEN FALSE
             ELSE TRUE

\* DomNode.inner_text
RECURSIVE InnerText(_), InnerTexts(_, _)
InnerText(n) ==
    IF n.type = "TEXT" THEN n.text
    ELSE Join(" ", InnerTexts(n.children, 1))

InnerTexts(children, i) ==
    IF i > Len(children) THEN << >>
    ELSE LET child_text == InnerText(children[i])
         IN  (IF ChildTextKept(children[i], child_text)
              THEN << child_text >> ELSE << >>)
             \o InnerTexts(children, i + 1)

\* Every node of a tree, a parent before its children (pre-order).
RECURSIVE Nodes(_)
Nodes(n) == << n >> \o Concat([i \in 1..Len(n.children) |-> Nodes(n.children[i])])

\* str.strip of a node text.  The texts of the model are short words, the
\* empty text and texts of blanks only; only the latter strip to something
\* else than themselves.
Strip(text) == IF text \in {" ", "  "} THEN "" ELSE text

\* The predicates handed to subtree_filter and to
\* find_all_matching_subtrees_with_parents: Callable[[DomNode], bool].
\* "has_children" reads the node's children, the others the node's own
\* fields; "is_dialog" is the inner function of prune_non_dialogs_if_present.
Predicates == {"any", "has_id", "not_text_role", "has_children", "is_dialog"}

Holds(p, n) ==
    CASE p = "any" -> TRUE
      [] p = "has_id" -> n.id # None
      [] p = "not_text_role" -> n.role # "text"
      [] p = "has_children" -> Len(n.children) > 0
      [] p = "is_dialog" -> n.role = "dialog" /\ n.computed.in_viewport

\* DomNode.is_interaction
IsInteractionByCategory(n) ==
    IF n.id = None THEN FALSE
    ELSE ~IsStrRole(n.role) /\ RoleCategory(n.role) = "INTERACTION"

IsInteraction(n) ==
    IF IsStrRole(n.role) THEN FALSE
    ELSE IF n.id = None THEN FALSE
    ELSE IF n.type = "INTERACTION" THEN TRUE
    ELSE RoleCategory(n.role) \in {"INTERACTION"}

\* DomNode.flatten: inner() appends the node, when it is kept, before it
\* walks the children in order.
RECURSIVE Flatten(_, _)
Flatten(n, only_interaction) ==
    (IF ~only_interaction \/ IsInteraction(n) THEN << n >> ELSE << >>)
    \o Concat([i \in 1..Len(n.children) |->
                    Flatten(n.children[i], only_interaction)])

\* DomNode.interaction_nodes: the nodes flatten(only_interaction=True)
\* keeps, each through to_interaction_node(); the first exception of a
\* conversion ends the call.
InteractionNodesOfAllNodes(n) ==
    LET inodes == Flatten(n, FALSE)
        converted == [i \in 1..Len(inodes) |-> ToInteractionNode(inodes[i])]
        raised == {i \in 1..Len(inodes) : converted[i].kind = "raise"}
    IN  IF raised # {}
        THEN converted[CHOOSE i \in raised : \A j \in raised : i <= j]
        ELSE Ok([i \in 1..Len(inodes) |-> converted[i].val[1]])

InteractionNodes(n) ==
    LET inodes == Flatten(n, TRUE)
        converted == [i \in 1..Len(inodes) |-> ToInteractionNode(inodes[i])]
        raised == {i \in 1..Len(inodes) : converted[i].kind = "raise"}
    IN  IF raised # {}
        THEN converted[CHOOSE i \in raised : \A j \in raised : i <= j]
        ELSE Ok([i \in 1..Len(inodes) |-> converted[i].val[1]])

\* DomNode.find_all_matching_subtrees_with_parents.  matches is the list
\* returned; evaluated lists the nodes the predicate was called on, in call
\* order.
RECURSIVE FindAllMatchingSubtreesWithParents(_, _), FindAllMatchingAtAnyDepth(_, _)
FindAllMatchingAtAnyDepth(n, p) ==
    LET below == [i \in 1..Len(n.children) |->
                     FindAllMatchingAtAnyDepth(n.children[i], p)]
    IN  [matches |-> (IF Holds(p, n) THEN << n >> ELSE << >>)
                     \o Concat([i \in 1..Len(below) |-> below[i].matches]),
         evaluated |-> << n >>
                     \o Concat([i \in 1..Len(below) |-> below[i].evaluated])]

FindAllMatchingSubtreesWithParents(n, p) ==
    IF Holds(p, n) THEN [matches |-> << n >>, evaluated |-> << n >>]
    ELSE LET below == [i \in 1..Len(n.children) |->
                          FindAllMatchingSubtreesWithParents(n.children[i], p)]
         IN  [matches |-> Concat([i \in 1..Len(below) |-> below[i].matches]),
              evaluated |-> << n >>
                     \o Concat([i \in 1..Len(below) |-> below[i].evaluated])]

\* DomNode.prune_non_dialogs_if_present
PruneNonDialogsKeepRoot(n) ==
    << n >> \o FindAllMatchingSubtreesWithParents(n, "is_dialog").matches

PruneNonDialogsIfPresent(n) ==
    LET dialogs == FindAllMatchingSubtreesWithParents(n, "is_dialog").matches
    IN  IF Len(dialogs) = 0 THEN << n >> ELSE dialogs

\* The inner function only_roles of subtree_without: a node whose role is
\* an unknown string is kept whatever roles holds.
OnlyRolesByName(n, roles) == n.role \notin roles

OnlyRoles(n, roles) ==
    IF IsStrRole(n.role) THEN TRUE ELSE n.role \notin roles

\* A callable handed to subtree_filter: one of the named predicates, or
\* the closure only_roles over a set of roles.
Predicate(p) == [fn |-> "predicate", p |-> p, roles |-> {}]
OnlyRolesOf(roles) == [fn |-> "only_roles", p |-> "", roles |-> roles]

\* ft(node)
Call(ft, n) ==
    IF ft.fn = "only_roles" THEN OnlyRoles(n, ft.roles) ELSE Holds(ft.p, n)

\* DomNode.subtree_filter: the Optional rebuilt node.  A rejected node is
\* dropped with all below it; an accepted node is rebuilt over its
\* surviving children unless it has no id, no surviving child and a blank
\* text.
RECURSIVE SubtreeFilter(_, _), SubtreeFilterKeepDead(_, _), SubtreeFilterDeadOnInput(_, _)
SubtreeFilterDeadOnInput(n, ft) ==
    IF ~Call(ft, n) THEN None
    ELSE LET filtered_children ==
                 Concat([i \in 1..Len(n.children) |->
                            SubtreeFilterDeadOnInput(n.children[i], ft)])
         IN  IF n.id = None /\ Len(n.children) = 0 /\ Strip(n.text) = ""
             THEN None
             ELSE Some(DomNodeInit(n.id, n.type, n.role, n.text,
                                   filtered_children, n.attributes,
                                   n.computed))

SubtreeFilterKeepDead(n, ft) ==
    IF ~Call(ft, n) THEN None
    ELSE LET filtered_children ==
                 Concat([i \in 1..Len(n.children) |->
                            SubtreeFilterKeepDead(n.children[i], ft)])
         IN  Some(DomNodeInit(n.id, n.type, n.role, n.text,
                              filtered_children, n.attributes, n.computed))

SubtreeFilter(n, ft) ==
    IF ~Call(ft, n) THEN None
    ELSE LET filtered_children ==
                 Concat([i \in 1..Len(n.children) |->
                            SubtreeFilter(n.children[i], ft)])
         IN  IF n.id = None /\ Len(filtered_children) = 0
                /\ Strip(n.text) = ""
             THEN None
             ELSE Some(DomNodeInit(n.id, n.type, n.role, n.text,
                                   filtered_children, n.attributes,
                                   n.computed))

\* DomNode.subtree_without
SubtreeWithoutReturnsNone(n, roles) ==
    LET filtered == SubtreeFilter(n, OnlyRolesOf(roles))
    IN  IF filtered = None THEN ReturnsNone ELSE Ok(filtered[1])

SubtreeWithout(n, roles) ==
    LET filtered == SubtreeFilter(n, OnlyRolesOf(roles))
    IN  IF filtered = None THEN Raise("NodeFilteringResultsInEmptyGraph")
        ELSE Ok(filtered[1])

----------------------------------------------------------------------------
(* Accessibility payloads (A11yNode) *)

Ids == {"B1", "B2"}
RequestIds == Ids \cup {"missing"}

\* The flags the engine adds to a node, each given or absent; none given.
NoEngineFlags ==
    [is_interactive |-> None, is_top_element |-> None, shadow_root |-> None,
     highlight_index |-> None]

\* An A11yNode: role and name are required, id and the attribute keys are
\* optional (attrs is a function whose domain is the keys present).
A11yNode(role, name, id, attrs, in_viewport, children) ==
    [role |-> role, name |-> name, id |-> id, attrs |-> attrs,
     in_viewport |-> in_viewport, engine |-> NoEngineFlags,
     children |-> children]

\* The node with flags of the engine.
WithEngineFlags(n, is_interactive, is_top_element, shadow_root, highlight_index) ==
    [n EXCEPT !.engine = [is_interactive |-> is_interactive,
                          is_top_element |-> is_top_element,
                          shadow_root |-> shadow_root,
                          highlight_index |-> highlight_index]]

NoAttrs == [key \in {} |-> TRUE]
AttrMaps == UNION {[keys -> BOOLEAN] : keys \in SUBSET StateFields}

\* Role and id of a payload node: an interactive, a textual, a structural
\* and an unknown role, with and without an id.
IdProfiles ==
    {<<"button", Some("B1")>>, <<"button", Some("B2")>>,
     <<"text", Some("B1")>>, <<"text", None>>,
     <<"WebArea", None>>, <<"custom", Some("B2")>>}

MkIdNode(p, children) == A11yNode(p[1], "x", p[2], NoAttrs, FALSE, children)

\* The payloads of exactly n nodes with role and id from IdProfiles, and
\* the forests (child lists) of exactly m nodes.
RECURSIVE IdPayloadsOfSize(_), IdForestsOfSize(_)
IdPayloadsOfSize(n) ==
    IF n = 0 THEN {}
    ELSE {MkIdNode(p, f) : p \in IdProfiles, f \in IdForestsOfSize(n - 1)}

IdForestsOfSize(m) ==
    IF m = 0 THEN {<< >>}
    ELSE UNION {{<< t >> \o f : t \in IdPayloadsOfSize(k),
                                f \in IdForestsOfSize(m - k)}
                : k \in 1..m}

\* Payloads that vary shape, role and id.
IdPayloads == UNION {IdPayloadsOfSize(n) : n \in 1..MaxNodes}

\* Children for inner_text: plain text leaves (one of them empty), a text
\* leaf that carries any of the hidden/visible/enabled keys, and a group
\* that carries them around one text leaf.
PlainKids ==
    {A11yNode("text", name, None, NoAttrs, FALSE, << >>) : name \in {"", "c"}}
FlaggedLeaves ==
    {A11yNode("text", "a", None, attrs, FALSE, << >>) : attrs \in AttrMaps}
FlaggedGroups ==
    {A11yNode("WebArea", "g", None, attrs, FALSE,
              << A11yNode("text", "b", None, NoAttrs, FALSE, << >>) >>)
        : attrs \in AttrMaps}

\* The child lists of m nodes in all, with one flagged child when
\* flagged is TRUE and none otherwise.
RECURSIVE TextForests(_, _)
TextForests(m, flagged) ==
    IF m = 0 THEN (IF flagged THEN {} ELSE {<< >>})
    ELSE {<< t >> \o f : t \in PlainKids, f \in TextForests(m - 1, flagged)}
         \cup (IF flagged
               THEN {<< t >> \o f : t \in FlaggedLeaves,
                                    f \in TextForests(m - 1, FALSE)}
               ELSE {})
         \cup (IF flagged /\ m >= 2
               THEN {<< t >> \o f : t \in FlaggedGroups,
                                    f \in TextForests(m - 2, FALSE)}
               ELSE {})

\* Payloads that vary the children's text and visibility flags below a
\* structural root.
TextPayloads ==
    {A11yNode("WebArea", "", None, NoAttrs, FALSE, f)
        : f \in UNION {TextForests(m, flagged)
                        : m \in 1..(MaxNodes - 1), flagged \in BOOLEAN}}

\* Payloads whose nodes carry flags of the engine: a button with all of
\* them and a text with an id and some of them, below a root with none.
EnginePayloads ==
    {A11yNode("WebArea", "", None, NoAttrs, TRUE,
        << WithEngineFlags(
                A11yNode("button", "x", Some("B1"), NoAttrs, TRUE, << >>),
                Some(TRUE), Some(top), Some(FALSE), Some(3)),
           WithEngineFlags(
                A11yNode("text", "t", Some("B2"), NoAttrs, FALSE, << >>),
                None, None, Some(shadow), None) >>)
        : top \in BOOLEAN, shadow \in BOOLEAN}

Payloads == IdPayloads \cup TextPayloads \cup EnginePayloads

\* Role, id, name and in_viewport of a payload node for the filters and
\* queries: an interactive node, a blank text leaf, a structural node with
\* a text of blanks, an unknown role, a dialog in and out of the viewport,
\* and a structural node that carries an id.
QueryProfiles ==
    {<<"button", Some("B1"), "x", FALSE>>,
     <<"text", None, "", FALSE>>,
     <<"WebArea", None, " ", FALSE>>,
     <<"custom", Some("B2"), "x", FALSE>>,
     <<"dialog", None, "d", TRUE>>,
     <<"dialog", None, "d", FALSE>>,
     <<"WebArea", Some("B1"), "x", FALSE>>}

MkQueryNode(p, children) == A11yNode(p[1], p[3], p[2], NoAttrs, p[4], children)

RECURSIVE QueryPayloadsOfSize(_), QueryForestsOfSize(_)
QueryPayloadsOfSize(n) ==
    IF n = 0 THEN {}
    ELSE {MkQueryNode(p, f) : p \in QueryProfiles,
                              f \in QueryForestsOfSize(n - 1)}

QueryForestsOfSize(m) ==
    IF m = 0 THEN {<< >>}
    ELSE UNION {{<< t >> \o f : t \in QueryPayloadsOfSize(k),
                                f \in QueryForestsOfSize(m - k)}
                : k \in 1..m}

QueryPayloads == UNION {QueryPayloadsOfSize(n) : n \in 1..MaxNodes}

\* The role sets handed to subtree_without.
RoleSets ==
    {{"text"}, {"custom"}, {"WebArea", "text"},
     {"button", "text", "WebArea", "dialog", "custom"}}

----------------------------------------------------------------------------
(* The diagnostic buffer: DomErrorBuffer, and DomAttributes.init's use of it *)

\* DomErrorBuffer._max_samples_per_key
MaxSamplesPerKey == 5
\* The width str(values[key])[:50] cuts a sample to.
SampleWidth == 50

\* A Python value handed in kwargs: a str (as the sequence of its
\* characters), an int (not negative) or a bool.
PyStr(chars) == [t |-> "str", chars |-> chars, int |-> 0, bool |-> FALSE]
PyInt(i) == [t |-> "int", chars |-> << >>, int |-> i, bool |-> FALSE]
PyBool(b) == [t |-> "bool", chars |-> << >>, int |-> 0, bool |-> b]

\* str() of an int
RECURSIVE Digits(_)
Digits(i) ==
    LET digit(d) == << "0", "1", "2", "3", "4", "5", "6", "7", "8", "9" >>[d + 1]
    IN  IF i < 10 THEN << digit(i) >>
        ELSE Digits(i \div 10) \o << digit(i % 10) >>

\* str(value)
Str(value) ==
    CASE value.t = "str" -> value.chars
      [] value.t = "int" -> Digits(value.int)
      [] value.t = "bool" -> IF value.bool THEN << "T", "r", "u", "e" >>
                             ELSE << "F", "a", "l", "s", "e" >>

\* str(values[key])[:50]
SampleOf(value) ==
    SubSeq(Str(value), 1,
           IF Len(Str(value)) < SampleWidth THEN Len(Str(value))
           ELSE SampleWidth)

EmptyBuffer == << >>

\* The body of add_error's loop for one key.
AddErrorKeyUncapped(buf, key, value) ==
    LET created == IF key \in DOMAIN buf THEN buf ELSE buf @@ (key :> << >>)
        str_v == SampleOf(value)
    IN  IF \A i \in 1..Len(created[key]) : created[key][i] # str_v
        THEN [created EXCEPT ![key] = Append(@, str_v)]
        ELSE created

AddErrorKey(buf, key, value) ==
    LET created == IF key \in DOMAIN buf THEN buf ELSE buf @@ (key :> << >>)
        str_v == SampleOf(value)
    IN  IF /\ Len(created[key]) < MaxSamplesPerKey
           /\ \A i \in 1..Len(created[key]) : created[key][i] # str_v
        THEN [created EXCEPT ![key] = Append(@, str_v)]
        ELSE created

\* DomErrorBuffer.add_error(extra_keys, values): the keys of a set are
\* visited in some order; what is done for one key leaves the others alone.
RECURSIVE AddError(_, _, _)
AddError(buf, extra_keys, values) ==
    IF extra_keys = {} THEN buf
    ELSE LET key == CHOOSE k \in extra_keys : TRUE
         IN  AddError(AddErrorKey(buf, key, values[key]),
                      extra_keys \ {key}, values)

\* DomErrorBuffer.flush(): nothing when the buffer is empty; otherwise one
\* record with the keys and their samples goes to logger.error and the
\* buffer is cleared.
FlushKeepsBuffer(buf) ==
    IF DOMAIN buf = {} THEN [buffer |-> buf, logged |-> None]
    ELSE [buffer |-> buf, logged |-> Some(buf)]

FlushOf(buf) ==
    IF DOMAIN buf = {} THEN [buffer |-> buf, logged |-> None]
    ELSE [buffer |-> EmptyBuffer, logged |-> Some(buf)]

\* DomAttributes.init.  The keys of the model that start with one of the
\* prefixes data-, js, __ or g-.
DroppedKeys == {"data-x", "data-src", "jsname", "__x", "g-x"}

HasDisallowedPrefixNever(k) == FALSE

HasDisallowedPrefix(k) == k \in DroppedKeys

\* k.replace("-", "_") on the keys of the model that hold a hyphen.
Underscored(k) ==
    CASE k = "ng-non-bindable" -> "ng_non_bindable"
      [] k = "in-viewport" -> "in_viewport"
      [] k = "data-src" -> "data_src"
      [] k = "data-x" -> "data_x"
      [] k = "g-x" -> "g_x"
      [] OTHER -> k

\* The keys of excluded_keys the model uses.
ExcludedKeys == {"style", "class", "ng_non_bindable"}

\* kwargs after the first two steps of init: the value of "class" is
\* moved to "class_name", then the keys with a disallowed prefix are left
\* out and the hyphens of the others replaced.
NormalizedKwargs(kwargs) ==
    LET aliased == IF "class" \in DOMAIN kwargs
                   THEN [k \in (DOMAIN kwargs \ {"class"}) \cup {"class_name"} |->
                            IF k = "class_name" THEN kwargs["class"]
                            ELSE kwargs[k]]
                   ELSE kwargs
        kept == {k \in DOMAIN aliased : ~HasDisallowedPrefix(k)}
    IN  [key \in {Underscored(k) : k \in kept} |->
            aliased[CHOOSE k \in kept : Underscored(k) = key]]

\* extra_keys: the keys left that are no field of DomAttributes and not in
\* excluded_keys.
ExtraKeys(kwargs) ==
    {k \in DOMAIN NormalizedKwargs(kwargs) :
        /\ k \notin AttributeFields
        /\ k \notin ExcludedKeys}

\* The buffer after DomAttributes.init(**kwargs).
BufferAfterInit(buf, kwargs) ==
    IF Cardinality(ExtraKeys(kwargs)) > 0
    THEN AddError(buf, ExtraKeys(kwargs), NormalizedKwargs(kwargs))
    ELSE buf

\* The DomAttributes that DomAttributes.init(**kwargs) returns.
DomAttributesOf(kwargs) ==
    [key \in AttributeFields |->
        IF key \in DOMAIN NormalizedKwargs(kwargs)
        THEN Some(NormalizedKwargs(kwargs)[key])
        ELSE None]

\* The keys of a payload node that DomAttributes.from_a11y_node hands to
\* init: the attribute keys present and, when the node carries it,
\* in_viewport (a node of the model carries the key when it is true).
RemainingKeys(n) ==
    [k \in DOMAIN n.attrs \cup (IF n.in_viewport THEN {"in_viewport"} ELSE {})
                \cup {f \in DOMAIN n.engine : n.engine[f] # None}
        |-> IF k = "in_viewport" THEN PyBool(TRUE)
            ELSE IF k = "highlight_index" THEN PyInt(n.engine[k][1])
            ELSE IF k \in DOMAIN n.engine THEN PyBool(n.engine[k][1])
            ELSE PyBool(n.attrs[k])]

\* The buffer after DomNode.from_a11y_node(n): the children are built
\* first, in order, then the node's own attributes are normalised.
RECURSIVE BufferAfterFromA11yNode(_, _), BufferAfterChildren(_, _, _)
BufferAfterFromA11yNode(buf, n) ==
    BufferAfterInit(BufferAfterChildren(buf, n.children, 1), RemainingKeys(n))

BufferAfterChildren(buf, children, i) ==
    IF i > Len(children) THEN buf
    ELSE BufferAfterChildren(BufferAfterFromA11yNode(buf, children[i]),
                             children, i + 1)

----------------------------------------------------------------------------
(* The resolution pipeline: ActionNodeResolutionPipe *)

\* The graph the pipeline resolves against (context.node): two buttons,
\* the second around a text, and a text that carries an id.
GraphPayload ==
    A11yNode("WebArea", "", None, NoAttrs, FALSE,
        << A11yNode("button", "Submit", Some("B1"), NoAttrs, FALSE, << >>),
           A11yNode("button", "Menu", Some("B2"), NoAttrs, FALSE,
                << A11yNode("text", "Menu", None, NoAttrs, FALSE, << >>) >>),
           A11yNode("text", "Title", Some("T1"), NoAttrs, FALSE, << >>) >>)

\* The action ids forward() is called with.
ActionIds == {"B1", "B2", "T1", "missing"}

\* The ComputedDomAttributes objects of a graph.
ObjectsOf(n) == {Nodes(n)[i].computed.obj : i \in 1..Len(Nodes(n))}

\* NodeSelectors
NodeSelectors(playwright_selector, css_selector, xpath_selector, notte_selector, in_iframe, in_shadow_root, iframe_parent_css_selectors) ==
    [playwright_selector |-> playwright_selector,
     css_selector |-> css_selector,
     xpath_selector |-> xpath_selector,
     notte_selector |-> notte_selector,
     in_iframe |-> in_iframe,
     in_shadow_root |-> in_shadow_root,
     iframe_parent_css_selectors |-> iframe_parent_css_selectors]

\* NodeSelectors.selectors(): the candidates, in probing order.
SelectorsCssFirst(b) ==
    << b.css_selector >> \o b.playwright_selector \o << b.xpath_selector >>

Selectors(b) ==
    b.playwright_selector \o << b.css_selector, b.xpath_selector >>

\* The most candidates a bundle has.
MaxCandidates == 3

\* What an awaited driver call answers: a value, or the driver's exception.
DriverAnswers(values) ==
    {Ok(v) : v \in values} \cup {Raise("PlaywrightError")}

\* The live frames of the page (page.frames).
Frames == 1..MaxFrames

\* locator.count() answers 0, 1 or more (2), or raises.
Pages == [Frames -> DriverAnswers({0, 1, 2})]

\* What get_html_selector can derive for a node: the playwright selector
\* may be missing.
HtmlSelectors(id) ==
    {[playwright_selector |-> pw, css_selector |-> "#" \o id,
      xpath_selector |-> "//" \o id]
        : pw \in {None, Some("internal:" \o id)}}

\* ComputedDomAttributes.set_selectors: the selectors after the call.
SetSelectorsOnce(current, new) == IF current = None THEN Some(new) ELSE current

SetSelectors(current, new) == Some(new)

\* `if selectors is None` of fill_node_selectors and compute_attributes
NeedsFallbackAlways(cached) == TRUE

NeedsFallback(cached) == cached = None

\* `if count == 1` of get_valid_locator
CountAcceptedAnyMatch(answer) == answer.kind = "ok" /\ answer.val[1] >= 1

CountAccepted(answer) == answer.kind = "ok" /\ answer.val[1] = 1

\* `except Exception as e: ... continue` of get_valid_locator: which
\* exceptions of a probe are caught.
ProbeErrorCaughtNever(answer) == FALSE

ProbeErrorCaught(answer) == answer.kind = "raise"

\* `if is_editable` of compute_attributes: is the input type probed?
ProbesInputTypeAlways(is_editable) == TRUE

ProbesInputTypeUnlessEditable(is_editable) == ~is_editable

ProbesInputType(is_editable) == is_editable

\* `if not visible or not enabled` of compute_attributes
NotActionableBoth(visible, enabled) == ~visible /\ ~enabled

NotActionable(visible, enabled) == ~visible \/ ~enabled

\* The exception forward() raises when find() returns None, and the one
\* it raises when the found node's id is not the requested one.
NodeNotFoundErrorOfItsOwn == "NodeNotFoundError"

NodeNotFoundError == "InvalidInternalCheckError"

IdMismatchError == "InvalidInternalCheckError"

\* The exception fill_node_selectors raises when the fallback lookup or the
\* selector derivation returns None.
FallbackFailureErrorInternal == "InvalidInternalCheckError"

FallbackFailureError == "FailedNodeResolutionError"

\* How the frames answered for one candidate: some count of exactly 1,
\* else some exception, else all counts 0, else some count of 2 or more.
AnswerClass(row) ==
    IF \E f \in DOMAIN row : row[f] = Ok(1) THEN "one"
    ELSE IF \E f \in DOMAIN row : row[f].kind = "raise" THEN "error"
    ELSE IF \A f \in DOMAIN row : row[f] = Ok(0) THEN "zero"
    ELSE "many"

NoProbes == [pair \in (1..MaxCandidates) \X Frames |-> 0]
NoStateProbes ==
    [is_editable |-> None, input_type |-> None, visible |-> None,
     enabled |-> None]

Init ==
    /\ raw = GraphPayload
    /\ dom = Some(FromA11yNode(GraphPayload, << >>))
    /\ op = "from_a11y_node"
    /\ arg = << >>
    /\ ret = NoCall
    /\ selectors = [o \in ObjectsOf(FromA11yNode(GraphPayload, << >>)) |-> None]
    /\ pc = "idle"
    /\ req = ""
    /\ node = None
    /\ bundle = None
    /\ cand = 0
    /\ frame = 0
    /\ page = << >>
    /\ seen = << >>
    /\ lookups = 0
    /\ nprobes = NoProbes
    /\ locator = None
    /\ probed = NoStateProbes
    /\ order = << >>
    /\ outcome = NoCall
    /\ buffer = BufferAfterFromA11yNode(EmptyBuffer, GraphPayload)
    /\ logged = None
    /\ threads = << >>
    /\ RetryIdle
    /\ EnvIdle

\* The call ends: it returns or raises.
Finish(result) ==
    /\ pc' = IF result.kind = "ok" THEN "done" ELSE "failed"
    /\ outcome' = result

\* get_valid_locator starts on bundle b: the empty-bundle check, then the
\* first (selector, frame) pair.
EnterGetValidLocator(b) ==
    IF Len(Selectors(b)) = 0
    THEN /\ Finish(Raise("InvalidInternalCheckError"))
         /\ cand' = 0 /\ frame' = 0 /\ page' = << >>
    ELSE /\ pc' = "count"
         /\ outcome' = NoCall
         /\ cand' = 1 /\ frame' = 1 /\ page' \in Pages

\* forward(action, ...): find the node, check it, and run
\* compute_attributes up to its first awaited call.
Forward ==
    /\ pc \in {"idle", "done", "failed"}
    /\ \E id \in ActionIds :
        LET found == Find(dom[1], id)
        IN  /\ req' = id
            /\ seen' = << >>
            /\ lookups' = IF found.kind = "ok"
                              /\ NeedsFallback(selectors[found.val[1].computed.obj])
                           THEN 1 ELSE 0
            /\ nprobes' = NoProbes
            /\ locator' = None
            /\ probed' = NoStateProbes
            /\ order' = << >>
            /\ IF found.kind = "raise"
               THEN /\ Finish(found)
                    /\ node' = None /\ bundle' = None
                    /\ cand' = 0 /\ frame' = 0 /\ page' = << >>
               ELSE IF found.kind = "none"
               THEN /\ Finish(Raise(NodeNotFoundError))
                    /\ node' = None /\ bundle' = None
                    /\ cand' = 0 /\ frame' = 0 /\ page' = << >>
               ELSE IF found.val[1].id # Some(id)
               THEN /\ Finish(Raise(IdMismatchError))
                    /\ node' = found.val /\ bundle' = None
                    /\ cand' = 0 /\ frame' = 0 /\ page' = << >>
               ELSE IF found.val[1].id = None
               THEN /\ Finish(Raise("InvalidInternalCheckError"))
                    /\ node' = found.val /\ bundle' = None
                    /\ cand' = 0 /\ frame' = 0 /\ page' = << >>
               ELSE LET cached == selectors[found.val[1].computed.obj]
                    IN  /\ node' = found.val
                        /\ IF NeedsFallback(cached)
                           THEN /\ pc' = "get_locator_for_node_id"
                                /\ outcome' = NoCall
                                /\ bundle' = None
                                /\ cand' = 0 /\ frame' = 0 /\ page' = << >>
                           ELSE /\ bundle' = cached
                                /\ EnterGetValidLocator(cached[1])
    /\ UNCHANGED selectors
    /\ UNCHANGED treeVars
    /\ UNCHANGED bufVars
    /\ UNCHANGED retry
    /\ UNCHANGED envVars

\* fill_node_selectors: get_locator_for_node_id answers.
GetLocatorForNodeId ==
    /\ pc = "get_locator_for_node_id"
    /\ \E answer \in DriverAnswers({None, Some("locator")}) :
        IF answer.kind = "raise" THEN Finish(answer)
        ELSE IF answer.val[1] = None
        THEN Finish(Raise(FallbackFailureError))
        ELSE pc' = "get_html_selector" /\ outcome' = NoCall
    /\ UNCHANGED <<selectors, req, node, bundle, cand, frame, page, seen,
                   lookups, nprobes, locator, probed, order>>
    /\ UNCHANGED treeVars
    /\ UNCHANGED bufVars
    /\ UNCHANGED retry
    /\ UNCHANGED envVars

\* fill_node_selectors: get_html_selector answers; the bundle is stored on
\* the node's computed attributes, compute_attributes reads it back and
\* get_valid_locator starts.
GetHtmlSelector ==
    /\ pc = "get_html_selector"
    /\ \E answer \in DriverAnswers({None} \cup {Some(h) : h \in HtmlSelectors(req)}) :
        IF answer.kind = "raise" \/ answer.val[1] = None
        THEN /\ Finish(IF answer.kind = "raise" THEN answer
                       ELSE Raise(FallbackFailureError))
             /\ UNCHANGED <<selectors, bundle, cand, frame, page>>
        ELSE LET h == answer.val[1][1]
                 filled == NodeSelectors(h.playwright_selector,
                                         h.css_selector, h.xpath_selector,
                                         "", FALSE, FALSE, << >>)
             IN  /\ selectors' = [selectors EXCEPT
                                    ![node[1].computed.obj] =
                                        SetSelectors(@, filled)]
                 /\ bundle' = Some(filled)
                 /\ EnterGetValidLocator(filled)
    /\ UNCHANGED <<req, node, seen, lookups, nprobes, locator, probed, order>>
    /\ UNCHANGED treeVars
    /\ UNCHANGED bufVars
    /\ UNCHANGED retry
    /\ UNCHANGED envVars

\* `for frame in page.frames`: the frame probed after a frame.
NextFrameSame(f) == f

NextFrame(f) == f + 1

\* get_valid_locator: locator.count() answers for the pair (cand, frame).
\* A count of exactly 1 accepts the pair; any other answer, an exception
\* included, moves on to the next frame, then to the next candidate, and
\* after the last pair raises.
Count ==
    /\ pc = "count"
    /\ nprobes' = [nprobes EXCEPT ![<<cand, frame>>] = @ + 1]
    /\ IF CountAccepted(page[frame])
        THEN /\ locator' = Some([selector |-> Selectors(bundle[1])[cand],
                                 frame |-> frame])
             /\ pc' = "is_editable"
             /\ seen' = Append(seen, AnswerClass(page))
             /\ UNCHANGED <<cand, frame, page, outcome>>
        ELSE IF page[frame].kind = "raise" /\ ~ProbeErrorCaught(page[frame])
        THEN /\ Finish(page[frame])
             /\ UNCHANGED <<cand, frame, page, seen, locator>>
        ELSE IF frame < Len(page)
        THEN /\ frame' = NextFrame(frame)
             /\ UNCHANGED <<cand, page, seen, locator, pc, outcome>>
        ELSE IF cand < Len(Selectors(bundle[1]))
        THEN /\ cand' = cand + 1
             /\ frame' = 1
             /\ page' \in Pages
             /\ seen' = Append(seen, AnswerClass(page))
             /\ UNCHANGED <<locator, pc, outcome>>
        ELSE /\ Finish(Raise("FailedUniqueLocatorResolutionError"))
             /\ UNCHANGED <<cand, frame, page, seen, locator>>
    /\ UNCHANGED <<selectors, req, node, bundle, lookups, probed, order>>
    /\ UNCHANGED treeVars
    /\ UNCHANGED bufVars
    /\ UNCHANGED retry
    /\ UNCHANGED envVars

\* compute_attributes: locator.is_editable answers.
IsEditable ==
    /\ pc = "is_editable"
    /\ \E answer \in DriverAnswers(BOOLEAN) :
        IF answer.kind = "raise"
        THEN Finish(answer) /\ UNCHANGED <<probed, order>>
        ELSE /\ probed' = [probed EXCEPT !.is_editable = answer.val]
             /\ order' = Append(order, "is_editable")
             /\ pc' = IF ProbesInputType(answer.val[1]) THEN "get_attribute"
                      ELSE "is_visible"
             /\ UNCHANGED outcome
    /\ page' = << >>
    /\ UNCHANGED <<selectors, req, node, bundle, cand, frame, seen, lookups,
                   nprobes, locator>>
    /\ UNCHANGED treeVars
    /\ UNCHANGED bufVars
    /\ UNCHANGED retry
    /\ UNCHANGED envVars

\* compute_attributes: locator.get_attribute("type") answers.
GetAttributeType ==
    /\ pc = "get_attribute"
    /\ \E answer \in DriverAnswers({None, Some("text")}) :
        IF answer.kind = "raise"
        THEN Finish(answer) /\ UNCHANGED <<probed, order>>
        ELSE /\ probed' = [probed EXCEPT !.input_type = answer.val[1]]
             /\ order' = Append(order, "input_type")
             /\ pc' = "is_visible"
             /\ UNCHANGED outcome
    /\ UNCHANGED <<selectors, req, node, bundle, cand, frame, page, seen,
                   lookups, nprobes, locator>>
    /\ UNCHANGED treeVars
    /\ UNCHANGED bufVars
    /\ UNCHANGED retry
    /\ UNCHANGED envVars

\* compute_attributes: locator.is_visible answers.
IsVisible ==
    /\ pc = "is_visible"
    /\ \E answer \in DriverAnswers(BOOLEAN) :
        IF answer.kind = "raise"
        THEN Finish(answer) /\ UNCHANGED <<probed, order>>
        ELSE /\ probed' = [probed EXCEPT !.visible = answer.val]
             /\ order' = Append(order, "visible")
             /\ pc' = "is_enabled"
             /\ UNCHANGED outcome
    /\ UNCHANGED <<selectors, req, node, bundle, cand, frame, page, seen,
                   lookups, nprobes, locator>>
    /\ UNCHANGED treeVars
    /\ UNCHANGED bufVars
    /\ UNCHANGED retry
    /\ UNCHANGED envVars

\* The ResolvedLocator compute_attributes returns.
ResolvedLocatorWithNodeBundle(n, is_editable, input_type, selector, b) ==
    [role |-> n.role,
     is_editable |-> is_editable,
     input_type |-> input_type,
     selector |-> b]

ResolvedLocator(n, is_editable, input_type, selector, b) ==
    [role |-> n.role,
     is_editable |-> is_editable,
     input_type |-> input_type,
     selector |-> NodeSelectors(Some(selector), b.css_selector,
                                b.xpath_selector, b.notte_selector,
                                b.in_iframe, b.in_shadow_root,
                                b.iframe_parent_css_selectors)]

\* The ExecutableAction forward() returns.
ExecutableAction(id, resolved_locator) ==
    [id |-> id, status |-> "valid", locator |-> resolved_locator]

\* compute_attributes: locator.is_enabled answers; the element must be
\* visible and enabled, and then the call returns.
IsEnabled ==
    /\ pc = "is_enabled"
    /\ \E answer \in DriverAnswers(BOOLEAN) :
        IF answer.kind = "raise"
        THEN Finish(answer) /\ UNCHANGED <<probed, order>>
        ELSE /\ probed' = [probed EXCEPT !.enabled = answer.val]
             /\ order' = Append(order, "enabled")
             /\ IF NotActionable(probed.visible[1], answer.val[1])
                THEN Finish(Raise("FailedNodeResolutionError"))
                ELSE Finish(Ok(ExecutableAction(req,
                        ResolvedLocator(node[1], probed.is_editable[1],
                                        probed.input_type,
                                        locator[1].selector, bundle[1]))))
    /\ UNCHANGED <<selectors, req, node, bundle, cand, frame, page, seen,
                   lookups, nprobes, locator>>
    /\ UNCHANGED treeVars
    /\ UNCHANGED bufVars
    /\ UNCHANGED retry
    /\ UNCHANGED envVars

Next ==
    \/ Forward
    \/ GetLocatorForNodeId
    \/ GetHtmlSelector
    \/ Count
    \/ IsEditable
    \/ GetAttributeType
    \/ IsVisible
    \/ IsEnabled

Spec == Init /\ [][Next]_vars

\* The awaited calls of a resolution: each is answered once it was made.
DriverStep ==
    \/ GetLocatorForNodeId
    \/ GetHtmlSelector
    \/ Count
    \/ IsEditable
    \/ GetAttributeType
    \/ IsVisible
    \/ IsEnabled

SpecFair == Spec /\ WF_vars(DriverStep)

----------------------------------------------------------------------------
(* SpecLocators: the resolution pipeline and SimpleActionSpacePipe on the  *)
(* same graph                                                             *)

\* The ResolvedLocator node_to_executable builds from the node's selectors.
SimpleResolvedLocator(n, b) ==
    [role |-> n.role,
     is_editable |-> FALSE,
     input_type |-> None,
     selector |-> b]

\* SimpleActionSpacePipe.node_to_executable
NodeToExecutable(n) ==
    IF selectors[n.computed.obj] = None
    THEN Raise("InvalidInternalCheckError")
    ELSE Ok(ExecutableAction(n.id[1],
                SimpleResolvedLocator(n, selectors[n.computed.obj][1])))

\* SimpleActionSpacePipe.actions(context.snapshot.dom_node): the
\* interaction nodes in order, each through node_to_executable; the first
\* exception ends the call.
Actions ==
    /\ pc \in {"idle", "done", "failed"}
    /\ LET inodes == InteractionNodes(dom[1])
           made == [i \in 1..Len(inodes.val[1]) |->
                        NodeToExecutable(inodes.val[1][i])]
           raised == {i \in DOMAIN made : made[i].kind = "raise"}
       IN  outcome' = IF inodes.kind = "raise" THEN inodes
                      ELSE IF raised # {}
                      THEN made[CHOOSE i \in raised : \A j \in raised : i <= j]
                      ELSE Ok([i \in DOMAIN made |-> made[i].val[1]])
    /\ pc' = "listed"
    /\ UNCHANGED <<selectors, req, node, bundle, cand, frame, page, seen,
                   lookups, nprobes, locator, probed, order>>
    /\ UNCHANGED treeVars
    /\ UNCHANGED bufVars
    /\ UNCHANGED retry
    /\ UNCHANGED envVars

LocatorsNext ==
    \/ Next
    \/ Actions

SpecLocators == Init /\ [][LocatorsNext]_vars

----------------------------------------------------------------------------
(* SpecTasks: two calls of forward run as tasks of one event loop on the  *)
(* same graph; a task runs from one await to the next without another     *)
(* task in between                                                        *)

Tasks == {"task1", "task2"}

\* A task: its position, the id it resolves, the node it found and its
\* local `selectors`.
TaskAt(task_pc, id, found, b) ==
    [pc |-> task_pc, req |-> id, node |-> found, bundle |-> b]

TasksInit ==
    /\ raw = GraphPayload
    /\ dom = Some(FromA11yNode(GraphPayload, << >>))
    /\ op = "from_a11y_node"
    /\ arg = << >>
    /\ ret = NoCall
    /\ selectors = [o \in ObjectsOf(FromA11yNode(GraphPayload, << >>)) |-> None]
    /\ pc = "idle"
    /\ req = ""
    /\ node = None
    /\ bundle = None
    /\ cand = 0
    /\ frame = 0
    /\ page = << >>
    /\ seen = << >>
    /\ lookups = 0
    /\ nprobes = NoProbes
    /\ locator = None
    /\ probed = NoStateProbes
    /\ order = << >>
    /\ outcome = NoCall
    /\ buffer = BufferAfterFromA11yNode(EmptyBuffer, GraphPayload)
    /\ logged = None
    /\ threads = [t \in Tasks |-> TaskAt("idle", "", None, None)]
    /\ RetryIdle
    /\ EnvIdle

TaskFrame ==
    /\ UNCHANGED treeVars
    /\ UNCHANGED <<buffer, logged>>
    /\ UNCHANGED <<pc, req, node, bundle, cand, frame, page, seen, nprobes,
                   locator, probed, outcome>>
    /\ UNCHANGED retry
    /\ UNCHANGED envVars

\* forward(action, ...) of a task: find the node, check it, read its
\* selectors and, when they are None, call get_locator_for_node_id.  With
\* selectors it goes on to get_valid_locator, whose steps are those of
\* Spec.
TaskForward(t) ==
    /\ threads[t].pc = "idle"
    /\ \E id \in ActionIds :
        LET found == Find(dom[1], id)
        IN  IF found.kind # "ok"
            THEN /\ threads' = [threads EXCEPT ![t] = TaskAt("failed", id, None, None)]
                 /\ UNCHANGED lookups
            ELSE IF found.val[1].id # Some(id)
            THEN /\ threads' = [threads EXCEPT
                                  ![t] = TaskAt("failed", id, found.val, None)]
                 /\ UNCHANGED lookups
            ELSE LET cached == selectors[found.val[1].computed.obj]
                 IN  IF NeedsFallback(cached)
                     THEN /\ threads' = [threads EXCEPT
                                ![t] = TaskAt("get_locator_for_node_id", id,
                                              found.val, None)]
                          /\ lookups' = lookups + 1
                     ELSE /\ threads' = [threads EXCEPT
                                ![t] = TaskAt("get_valid_locator", id,
                                              found.val, cached)]
                          /\ UNCHANGED lookups
    /\ UNCHANGED <<selectors, order>>
    /\ TaskFrame

\* fill_node_selectors of a task: get_locator_for_node_id answers.
TaskGetLocatorForNodeId(t) ==
    /\ threads[t].pc = "get_locator_for_node_id"
    /\ \E answer \in DriverAnswers({None, Some("locator")}) :
        threads' = [threads EXCEPT
            ![t].pc = IF answer.kind = "raise" \/ answer.val[1] = None
                      THEN "failed" ELSE "get_html_selector"]
    /\ UNCHANGED <<selectors, lookups, order>>
    /\ TaskFrame

\* fill_node_selectors of a task: get_html_selector answers; the bundle is
\* stored on the node with set_selectors and compute_attributes reads the
\* node's selectors back.
TaskGetHtmlSelector(t) ==
    /\ threads[t].pc = "get_html_selector"
    /\ \E answer \in DriverAnswers({None} \cup
                        {Some(h) : h \in HtmlSelectors(threads[t].req)}) :
        IF answer.kind = "raise" \/ answer.val[1] = None
        THEN /\ threads' = [threads EXCEPT ![t].pc = "failed"]
             /\ UNCHANGED <<selectors, order>>
        ELSE LET h == answer.val[1][1]
                 filled == NodeSelectors(h.playwright_selector,
                                         h.css_selector, h.xpath_selector,
                                         "", FALSE, FALSE, << >>)
                 obj == threads[t].node[1].computed.obj
             IN  /\ selectors' = [selectors EXCEPT
                                    ![obj] = SetSelectors(@, filled)]
                 /\ order' = Append(order, [task |-> t, obj |-> obj,
                                            selectors |-> filled])
                 /\ threads' = [threads EXCEPT
                                    ![t].pc = "get_valid_locator",
                                    ![t].bundle = selectors'[obj]]
    /\ UNCHANGED lookups
    /\ TaskFrame

TasksNext ==
    \E t \in Tasks :
        \/ TaskForward(t)
        \/ TaskGetLocatorForNodeId(t)
        \/ TaskGetHtmlSelector(t)

SpecTasks == TasksInit /\ [][TasksNext]_vars

----------------------------------------------------------------------------
(* SpecTree: build the graph of a payload, then apply one operation *)

ResIdle ==
    /\ selectors = << >>
    /\ pc = "idle"
    /\ req = ""
    /\ node = None
    /\ cand = 0
    /\ frame = 0
    /\ page = << >>
    /\ bundle = None
    /\ seen = << >>
    /\ lookups = 0
    /\ nprobes = << >>
    /\ locator = None
    /\ probed = NoStateProbes
    /\ order = << >>
    /\ outcome = NoCall

\* No attribute was normalised yet, and no thread runs.
BufIdle ==
    /\ buffer = EmptyBuffer
    /\ logged = None
    /\ threads = << >>

TreeInit ==
    /\ raw \in Payloads
    /\ dom = None
    /\ op = ""
    /\ arg = << >>
    /\ ret = NoCall
    /\ ResIdle
    /\ BufIdle
    /\ RetryIdle
    /\ EnvIdle

\* DomNode.from_a11y_node(raw)
BuildTree ==
    /\ op = ""
    /\ dom' = Some(FromA11yNode(raw, << >>))
    /\ op' = "from_a11y_node"
    /\ buffer' = BufferAfterFromA11yNode(buffer, raw)
    /\ UNCHANGED <<raw, arg, ret>>
    /\ selectors' = [o \in ObjectsOf(FromA11yNode(raw, << >>)) |-> None]
    /\ UNCHANGED callVars
    /\ UNCHANGED retry
    /\ UNCHANGED envVars
    /\ UNCHANGED <<logged, threads>>

\* dom.find(id)
ApplyFind ==
    /\ op = "from_a11y_node"
    /\ \E id \in RequestIds :
        /\ op' = "find"
        /\ arg' = << id >>
        /\ ret' = Find(dom[1], id)
    /\ UNCHANGED <<raw, dom>>
    /\ UNCHANGED resVars
    /\ UNCHANGED retry
    /\ UNCHANGED envVars
    /\ UNCHANGED bufVars

\* n.to_interaction_node() for the root n of the graph, as built or rebuilt
\* by the DomNode constructor with another kind or without its id.
ApplyToInteractionNode ==
    /\ op = "from_a11y_node"
    /\ \E type \in NodeTypes, keep_id \in BOOLEAN :
        LET n == dom[1]
            m == DomNodeInit(IF keep_id THEN n.id ELSE None, type, n.role,
                             n.text, n.children, n.attributes, n.computed)
        IN  /\ op' = "to_interaction_node"
            /\ arg' = << m >>
            /\ ret' = ToInteractionNode(m)
    /\ UNCHANGED <<raw, dom>>
    /\ UNCHANGED resVars
    /\ UNCHANGED retry
    /\ UNCHANGED envVars
    /\ UNCHANGED bufVars

\* dom.inner_text()
ApplyInnerText ==
    /\ op = "from_a11y_node"
    /\ op' = "inner_text"
    /\ arg' = << dom[1] >>
    /\ ret' = Ok(InnerText(dom[1]))
    /\ UNCHANGED <<raw, dom>>
    /\ UNCHANGED resVars
    /\ UNCHANGED retry
    /\ UNCHANGED envVars
    /\ UNCHANGED bufVars

\* dom.interaction_nodes()
ApplyInteractionNodes ==
    /\ op = "from_a11y_node"
    /\ op' = "interaction_nodes"
    /\ arg' = << dom[1] >>
    /\ ret' = InteractionNodes(dom[1])
    /\ UNCHANGED <<raw, dom>>
    /\ UNCHANGED resVars
    /\ UNCHANGED retry
    /\ UNCHANGED envVars
    /\ UNCHANGED bufVars

TreeNext ==
    \/ BuildTree
    \/ ApplyFind
    \/ ApplyToInteractionNode
    \/ ApplyInnerText
    \/ ApplyInteractionNodes

SpecTree == TreeInit /\ [][TreeNext]_vars

----------------------------------------------------------------------------
(* SpecQuery: build the graph of a payload, then apply one filter or query *)

QueryInit ==
    /\ raw \in QueryPayloads
    /\ dom = None
    /\ op = ""
    /\ arg = << >>
    /\ ret = NoCall
    /\ ResIdle
    /\ BufIdle
    /\ RetryIdle
    /\ EnvIdle

\* dom.subtree_filter(ft)
ApplySubtreeFilter ==
    /\ op = "from_a11y_node"
    /\ \E p \in Predicates :
        LET filtered == SubtreeFilter(dom[1], Predicate(p))
        IN  /\ op' = "subtree_filter"
            /\ arg' = << p >>
            /\ ret' = IF filtered = None THEN ReturnsNone
                      ELSE Ok(filtered[1])
    /\ UNCHANGED <<raw, dom>>
    /\ UNCHANGED resVars
    /\ UNCHANGED retry
    /\ UNCHANGED envVars
    /\ UNCHANGED bufVars

\* dom.subtree_without(roles)
ApplySubtreeWithout ==
    /\ op = "from_a11y_node"
    /\ \E roles \in RoleSets :
        /\ op' = "subtree_without"
        /\ arg' = << roles >>
        /\ ret' = SubtreeWithout(dom[1], roles)
    /\ UNCHANGED <<raw, dom>>
    /\ UNCHANGED resVars
    /\ UNCHANGED retry
    /\ UNCHANGED envVars
    /\ UNCHANGED bufVars

\* dom.prune_non_dialogs_if_present()
ApplyPruneNonDialogsIfPresent ==
    /\ op = "from_a11y_node"
    /\ op' = "prune_non_dialogs_if_present"
    /\ arg' = << >>
    /\ ret' = Ok(PruneNonDialogsIfPresent(dom[1]))
    /\ UNCHANGED <<raw, dom>>
    /\ UNCHANGED resVars
    /\ UNCHANGED retry
    /\ UNCHANGED envVars
    /\ UNCHANGED bufVars

\* DomNode.find_all_matching_subtrees_with_parents(dom, predicate)
ApplyFindAllMatching ==
    /\ op = "from_a11y_node"
    /\ \E p \in Predicates :
        /\ op' = "find_all_matching_subtrees_with_parents"
        /\ arg' = << p >>
        /\ ret' = Ok(FindAllMatchingSubtreesWithParents(dom[1], p))
    /\ UNCHANGED <<raw, dom>>
    /\ UNCHANGED resVars
    /\ UNCHANGED retry
    /\ UNCHANGED envVars
    /\ UNCHANGED bufVars

\* dom.flatten(only_interaction)
ApplyFlatten ==
    /\ op = "from_a11y_node"
    /\ \E only_interaction \in BOOLEAN :
        /\ op' = "flatten"
        /\ arg' = << only_interaction >>
        /\ ret' = Ok(Flatten(dom[1], only_interaction))
    /\ UNCHANGED <<raw, dom>>
    /\ UNCHANGED resVars
    /\ UNCHANGED retry
    /\ UNCHANGED envVars
    /\ UNCHANGED bufVars

QueryNext ==
    \/ BuildTree
    \/ ApplySubtreeFilter
    \/ ApplySubtreeWithout
    \/ ApplyPruneNonDialogsIfPresent
    \/ ApplyFindAllMatching
    \/ ApplyFlatten

SpecQuery == QueryInit /\ [][QueryNext]_vars

----------------------------------------------------------------------------
(* SpecBuffer: attribute normalisations, tree constructions, a tree query *)
(* and flushes, one call after another                                     *)

\* A str value one character wider than a sample, ending in last.
LongValue(last) ==
    PyStr([i \in 1..(SampleWidth + 1) |-> IF i <= SampleWidth THEN "x" ELSE last])

\* The values reported for the unknown key "foo": short strings, an int
\* and the str that reads the same, and two long strings that differ in
\* their last character only.
SampleValues ==
    {PyStr(<< "a" >>), PyStr(<< "b" >>), PyStr(<< "c" >>), PyStr(<< "d" >>),
     PyInt(12), PyStr(<< "1", "2" >>), LongValue("y"), LongValue("z")}

\* The kwargs of the DomAttributes.init calls: the unknown key "foo" with
\* each value, two unknown keys at once, keys with each disallowed prefix
\* next to "class", and hyphenated keys next to fields and to "style".
KwargsSet ==
    {("foo" :> v) : v \in SampleValues}
    \cup {("foo" :> PyStr(<< "a" >>)) @@ ("in_viewport" :> PyBool(TRUE)),
          ("class" :> PyStr(<< "a" >>)) @@ ("data-src" :> PyStr(<< "a" >>))
                @@ ("jsname" :> PyStr(<< "a" >>)) @@ ("__x" :> PyStr(<< "a" >>))
                @@ ("g-x" :> PyStr(<< "a" >>)),
          ("ng-non-bindable" :> PyStr(<< "a" >>))
                @@ ("in-viewport" :> PyBool(TRUE))
                @@ ("data-x" :> PyStr(<< "a" >>))
                @@ ("style" :> PyStr(<< "a" >>))
                @@ ("visible" :> PyBool(FALSE))
                @@ ("hidden" :> PyBool(TRUE))}

\* The payload of the from_a11y_node calls: a dialog in the viewport
\* around a button in the viewport.
BufferPayload ==
    A11yNode("dialog", "d", None, NoAttrs, TRUE,
        << A11yNode("button", "x", Some("B1"), NoAttrs, TRUE, << >>) >>)

BufferInit ==
    /\ raw = BufferPayload
    /\ dom = None
    /\ op = ""
    /\ arg = << >>
    /\ ret = NoCall
    /\ ResIdle
    /\ BufIdle
    /\ RetryIdle
    /\ EnvIdle

\* DomAttributes.init(**kwargs)
DomAttributesInit ==
    /\ \E kwargs \in KwargsSet :
        /\ op' = "DomAttributes.init"
        /\ arg' = << kwargs >>
        /\ ret' = Ok(DomAttributesOf(kwargs))
        /\ buffer' = BufferAfterInit(buffer, kwargs)
    /\ logged' = None
    /\ UNCHANGED <<raw, dom, threads>>
    /\ UNCHANGED resVars
    /\ UNCHANGED retry
    /\ UNCHANGED envVars

\* DomNode.from_a11y_node(raw)
Ingest ==
    /\ dom' = Some(FromA11yNode(raw, << >>))
    /\ buffer' = BufferAfterFromA11yNode(buffer, raw)
    /\ op' = "from_a11y_node"
    /\ arg' = << >>
    /\ ret' = NoCall
    /\ logged' = None
    /\ UNCHANGED <<raw, threads>>
    /\ selectors' = [o \in ObjectsOf(FromA11yNode(raw, << >>)) |-> None]
    /\ UNCHANGED callVars
    /\ UNCHANGED retry
    /\ UNCHANGED envVars

\* DomErrorBuffer.flush()
Flush ==
    /\ op' = "flush"
    /\ arg' = << >>
    /\ ret' = ReturnsNone
    /\ buffer' = FlushOf(buffer).buffer
    /\ logged' = FlushOf(buffer).logged
    /\ UNCHANGED <<raw, dom, threads>>
    /\ UNCHANGED resVars
    /\ UNCHANGED retry
    /\ UNCHANGED envVars

BufferNext ==
    \/ DomAttributesInit
    \/ Ingest
    \/ ApplyFind
    \/ Flush

SpecBuffer == BufferInit /\ [][BufferNext]_vars

----------------------------------------------------------------------------
(* SpecBufferThreads: two add_error calls and a flush run in threads of  *)
(* the host; the buffer has no lock, so the calls interleave at each of  *)
(* their reads and writes of DomErrorBuffer._buffer                       *)

Writers == {"w1", "w2"}
Flusher == "f"

\* The key every writer reports, and the values reported.
SharedKey == "foo"
ThreadValues == {PyStr(<< "e" >>), PyStr(<< "f" >>)}

\* The buffers the threads start on: empty, or one key with four samples.
StartBuffers ==
    {EmptyBuffer,
     (SharedKey :> << << "a" >>, << "b" >>, << "c" >>, << "d" >> >>)}

At(thread_pc, str_v) == [pc |-> thread_pc, str_v |-> str_v]

ThreadsInit ==
    /\ raw = BufferPayload
    /\ dom = None
    /\ op = ""
    /\ arg = << >>
    /\ ret = NoCall
    /\ ResIdle
    /\ buffer \in StartBuffers
    /\ logged = None
    /\ threads = [t \in Writers \cup {Flusher} |-> At("idle", << >>)]
    /\ RetryIdle
    /\ EnvIdle

Step(t, thread_pc, str_v) ==
    threads' = [threads EXCEPT ![t] = At(thread_pc, str_v)]

ThreadFrame ==
    /\ UNCHANGED treeVars
    /\ UNCHANGED resVars
    /\ UNCHANGED retry
    /\ UNCHANGED envVars

\* add_error({key}, {key: value}) is entered; `for key in extra_keys`
WriterEnter ==
    /\ \E t \in Writers, value \in ThreadValues :
        /\ threads[t].pc = "idle"
        /\ Step(t, "check_key", SampleOf(value))
    /\ UNCHANGED <<buffer, logged>>
    /\ ThreadFrame

\* if key not in DomErrorBuffer._buffer.keys()
WriterCheckKey ==
    /\ \E t \in Writers :
        /\ threads[t].pc = "check_key"
        /\ Step(t, IF SharedKey \in DOMAIN buffer THEN "check_len"
                   ELSE "create", threads[t].str_v)
    /\ UNCHANGED <<buffer, logged>>
    /\ ThreadFrame

\* DomErrorBuffer._buffer[key] = []
WriterCreate ==
    /\ \E t \in Writers :
        /\ threads[t].pc = "create"
        /\ buffer' = IF SharedKey \in DOMAIN buffer
                     THEN [buffer EXCEPT ![SharedKey] = << >>]
                     ELSE buffer @@ (SharedKey :> << >>)
        /\ Step(t, "check_len", threads[t].str_v)
    /\ UNCHANGED logged
    /\ ThreadFrame

\* len(DomErrorBuffer._buffer[key]) < _max_samples_per_key; the lookup
\* raises KeyError when a flush has cleared the buffer meanwhile.
WriterCheckLen ==
    /\ \E t \in Writers :
        /\ threads[t].pc = "check_len"
        /\ Step(t, IF SharedKey \notin DOMAIN buffer THEN "KeyError"
                   ELSE IF Len(buffer[SharedKey]) < MaxSamplesPerKey
                   THEN "check_in" ELSE "returned", threads[t].str_v)
    /\ UNCHANGED <<buffer, logged>>
    /\ ThreadFrame

\* str_v not in DomErrorBuffer._buffer[key]
WriterCheckIn ==
    /\ \E t \in Writers :
        /\ threads[t].pc = "check_in"
        /\ Step(t, IF SharedKey \notin DOMAIN buffer THEN "KeyError"
                   ELSE IF \A i \in 1..Len(buffer[SharedKey]) :
                              buffer[SharedKey][i] # threads[t].str_v
                   THEN "append" ELSE "returned", threads[t].str_v)
    /\ UNCHANGED <<buffer, logged>>
    /\ ThreadFrame

\* DomErrorBuffer._buffer[key].append(str_v)
WriterAppend ==
    /\ \E t \in Writers :
        /\ threads[t].pc = "append"
        /\ IF SharedKey \in DOMAIN buffer
           THEN /\ buffer' = [buffer EXCEPT
                                ![SharedKey] = Append(@, threads[t].str_v)]
                /\ Step(t, "returned", threads[t].str_v)
           ELSE /\ UNCHANGED buffer
                /\ Step(t, "KeyError", threads[t].str_v)
    /\ UNCHANGED logged
    /\ ThreadFrame

\* flush(): if len(DomErrorBuffer._buffer) == 0: return
FlusherCheckEmpty ==
    /\ threads[Flusher].pc = "idle"
    /\ Step(Flusher, IF DOMAIN buffer = {} THEN "returned" ELSE "log", << >>)
    /\ UNCHANGED <<buffer, logged>>
    /\ ThreadFrame

\* logger.error(...) with the keys and samples read now
FlusherLog ==
    /\ threads[Flusher].pc = "log"
    /\ logged' = Some(buffer)
    /\ Step(Flusher, "clear", << >>)
    /\ UNCHANGED buffer
    /\ ThreadFrame

\* DomErrorBuffer._buffer.clear()
FlusherClear ==
    /\ threads[Flusher].pc = "clear"
    /\ buffer' = EmptyBuffer
    /\ Step(Flusher, "returned", << >>)
    /\ UNCHANGED logged
    /\ ThreadFrame

ThreadsNext ==
    \/ WriterEnter
    \/ WriterCheckKey
    \/ WriterCreate
    \/ WriterCheckLen
    \/ WriterCheckIn
    \/ WriterAppend
    \/ FlusherCheckEmpty
    \/ FlusherLog
    \/ FlusherClear

SpecBufferThreads == ThreadsInit /\ [][ThreadsNext]_vars

----------------------------------------------------------------------------
(* SpecRetry: RetryPipeWrapper.forward around a wrapped pipe that returns *)
(* an action space or raises                                              *)

\* The largest max_tries a wrapper is made with.
MaxTries == 4

\* str(e) of the exceptions the wrapped pipe raises: two parsing failures
\* and the provider's context-length failure, with and without the sizes
\* the wrapper looks for.
ParsingMessages == {"invalid json", "no action found"}
ContextMessages ==
    {"Please reduce the length of the messages or completions. Current length is 9 while limit is 8",
     "Please reduce the length of the messages or completions."}
ErrorMessages == ParsingMessages \cup ContextMessages

\* "Please reduce the length of the messages or completions" in str(e)
IsContextTooLongNever(message) == FALSE

IsContextTooLong(message) == message \in ContextMessages

\* re.search(r"Current length is (\d+) while limit is (\d+)", str(e)):
\* size and max_size, None for both without a match.
ContextSizes(message) ==
    IF message = "Please reduce the length of the messages or completions. Current length is 9 while limit is 8"
    THEN [size |-> Some(9), max_size |-> Some(8)]
    ELSE [size |-> None, max_size |-> None]

\* What self.pipe.forward(context, previous_action_list) does.
PipeAnswers == {Ok("action space")} \cup {Raise(m) : m \in ErrorMessages}

\* raise ContextSizeTooLargeError(size=size, max_size=max_size)
ContextSizeTooLargeError(sizes) ==
    [kind |-> "raise", val |-> << sizes >>, err |-> "ContextSizeTooLargeError"]

\* `for _ in range(self.max_tries)`: another iteration follows the n-th.
HasNextTryAfterLast(n, max_tries) == n <= max_tries

HasNextTry(n, max_tries) == n < max_tries

\* RetryPipeWrapper(pipe, max_tries)
RetryInit ==
    /\ raw = GraphPayload
    /\ dom = None
    /\ op = ""
    /\ arg = << >>
    /\ ret = NoCall
    /\ ResIdle
    /\ BufIdle
    /\ \E max_tries \in 0..MaxTries :
            retry = [NoRetry EXCEPT !.max_tries = max_tries]
    /\ EnvIdle

\* The failure exit of forward: the trace and LLMParsingError.
RetryFailure(errors) ==
    [traced |-> Some([status |-> "failure", nb_retries |-> Len(errors),
                      error_msgs |-> errors]),
     outcome |-> Raise("LLMParsingError")]

\* forward(context, previous_action_list) is called: errors and last_error
\* are reset and the loop is entered; with no iteration to make it is left
\* at once.
RetryForward ==
    /\ retry.pc \in {"idle", "done", "failed", "returned"}
    /\ retry' = IF HasNextTry(0, retry.max_tries)
                THEN [NoRetry EXCEPT !.max_tries = retry.max_tries,
                                     !.pc = "pipe.forward"]
                ELSE [NoRetry EXCEPT !.max_tries = retry.max_tries,
                                     !.pc = "failed",
                                     !.traced = RetryFailure(<< >>).traced,
                                     !.outcome = RetryFailure(<< >>).outcome]
    /\ UNCHANGED treeVars
    /\ UNCHANGED resVars
    /\ UNCHANGED bufVars
    /\ UNCHANGED envVars

\* One iteration of the loop: the wrapped pipe answers.  Its result is
\* traced and returned; its exception ends the call when it is a
\* context-length failure and is appended to errors otherwise, and the
\* loop goes on or is left for the failure exit.
PipeForward ==
    /\ retry.pc = "pipe.forward"
    /\ \E answer \in PipeAnswers :
        LET calls == Append(retry.calls, answer)
            errors == Append(retry.errors, answer.err)
        IN  IF answer.kind = "ok"
            THEN retry' = [retry EXCEPT
                    !.pc = "done", !.calls = calls,
                    !.traced = Some([status |-> "success",
                                     nb_retries |-> Len(retry.errors),
                                     error_msgs |-> retry.errors]),
                    !.outcome = answer]
            ELSE IF IsContextTooLong(answer.err)
            THEN retry' = [retry EXCEPT
                    !.pc = "failed", !.calls = calls,
                    !.last_error = Some(answer.err),
                    !.outcome = ContextSizeTooLargeError(ContextSizes(answer.err))]
            ELSE IF HasNextTry(Len(calls), retry.max_tries)
            THEN retry' = [retry EXCEPT
                    !.calls = calls, !.errors = errors,
                    !.last_error = Some(answer.err)]
            ELSE retry' = [retry EXCEPT
                    !.pc = "failed", !.calls = calls, !.errors = errors,
                    !.last_error = Some(answer.err),
                    !.traced = RetryFailure(errors).traced,
                    !.outcome = RetryFailure(errors).outcome]
    /\ UNCHANGED treeVars
    /\ UNCHANGED resVars
    /\ UNCHANGED bufVars
    /\ UNCHANGED envVars

\* An Action of the previous action list, and the lists the calls of
\* forward_incremental are given.
Action(id, description, category, params) ==
    [id |-> id, description |-> description, category |-> category,
     params |-> params, status |-> "valid"]

PreviousActionLists ==
    LET click == Action("B1", "click", "navigation", << >>)
        fill == Action("I1", "fill", "form", << "value" >>)
    IN  {<< >>, << click >>, << click, fill >>, << fill, click >>}

\* PossibleAction(id=act.id, description=act.description,
\* category=act.category, params=act.params)
PossibleAction(act) ==
    [id |-> act.id, description |-> act.description,
     category |-> act.category, params |-> act.params]

\* The PossibleActionSpace forward_incremental returns after the loop.
PreviousActionSpaceEmpty(previous_action_list) ==
    [description |-> "", actions |-> << >>]

PreviousActionSpace(previous_action_list) ==
    [description |-> "",
     actions |-> [i \in 1..Len(previous_action_list) |->
                    PossibleAction(previous_action_list[i])]]

\* forward_incremental(context, previous_action_list) is called; with no
\* iteration to make the previous actions are returned at once.
RetryForwardIncremental ==
    /\ retry.pc \in {"idle", "done", "failed", "returned"}
    /\ \E previous_action_list \in PreviousActionLists :
        retry' = IF HasNextTry(0, retry.max_tries)
                 THEN [NoRetry EXCEPT
                        !.max_tries = retry.max_tries,
                        !.pc = "pipe.forward_incremental",
                        !.previous_action_list = previous_action_list]
                 ELSE [NoRetry EXCEPT
                        !.max_tries = retry.max_tries,
                        !.pc = "returned",
                        !.previous_action_list = previous_action_list,
                        !.outcome = Ok(PreviousActionSpace(previous_action_list))]
    /\ UNCHANGED treeVars
    /\ UNCHANGED resVars
    /\ UNCHANGED bufVars
    /\ UNCHANGED envVars

\* One iteration of the loop of forward_incremental: the result of the
\* wrapped pipe is returned; any exception is passed over, and after the
\* last iteration the previous actions are returned.
PipeForwardIncremental ==
    /\ retry.pc = "pipe.forward_incremental"
    /\ \E answer \in {Ok("incremental action space")}
                        \cup {Raise(m) : m \in ErrorMessages} :
        LET calls == Append(retry.incremental_calls, answer)
        IN  IF answer.kind = "ok"
            THEN retry' = [retry EXCEPT !.pc = "returned",
                                        !.incremental_calls = calls,
                                        !.outcome = answer]
            ELSE IF HasNextTry(Len(calls), retry.max_tries)
            THEN retry' = [retry EXCEPT !.incremental_calls = calls]
            ELSE retry' = [retry EXCEPT
                    !.pc = "returned", !.incremental_calls = calls,
                    !.outcome = Ok(PreviousActionSpace(retry.previous_action_list))]
    /\ UNCHANGED treeVars
    /\ UNCHANGED resVars
    /\ UNCHANGED bufVars
    /\ UNCHANGED envVars

RetryNext ==
    \/ RetryForward
    \/ PipeForward
    \/ RetryForwardIncremental
    \/ PipeForwardIncremental

SpecRetry == RetryInit /\ [][RetryNext]_vars

----------------------------------------------------------------------------
(* SpecConversation: a Conversation (src/notte/common/conversation.py) is  *)
(* made and its methods are called one after another                      *)

\* Most messages of a history; the larger max_tokens of the model.
MaxHistory == 4
MaxTokens == 5

\* count_tokens on the contents of the model: the empty string, a short
\* and a longer text, and the list a text makes with an image.
CountTokens(content) ==
    CASE content = "hello world" -> 2
      [] content = "[hi, image]" -> 3
      [] OTHER -> 1

\* CachedMessage(message=msg, token_count=count_tokens(msg["content"]))
CachedMessage(role, content) ==
    [role |-> role, content |-> content, token_count |-> CountTokens(content)]

\* sum(msg.token_count for msg in messages)
RECURSIVE SumTokens(_)
SumTokens(messages) ==
    IF Len(messages) = 0 THEN 0
    ELSE Head(messages).token_count + SumTokens(Tail(messages))

IsSystem(msg) == msg.role = "system"
IsNotSystem(msg) == msg.role # "system"

\* The while loop of trim_history_to_fit: pop(0) as long as a message is
\* left and the messages left hold more than available_tokens.
RECURSIVE PopOldest(_, _)
PopNewest(other_messages, available_tokens) ==
    IF Len(other_messages) > 0
       /\ SumTokens(other_messages) > available_tokens
    THEN PopOldest(SubSeq(other_messages, 1, Len(other_messages) - 1),
                   available_tokens)
    ELSE other_messages

PopOldest(other_messages, available_tokens) ==
    IF Len(other_messages) > 0
       /\ SumTokens(other_messages) > available_tokens
    THEN PopOldest(Tail(other_messages), available_tokens)
    ELSE other_messages

\* Conversation.trim_history_to_fit(new_content)
TrimHistoryToFit(c, new_content) ==
    IF ~c.autosize THEN c
    ELSE LET system_messages == SelectSeq(c.history, IsSystem)
             other_messages == SelectSeq(c.history, IsNotSystem)
             available_tokens == c.max_tokens - SumTokens(system_messages)
                                    - CountTokens(new_content)
             kept == PopOldest(other_messages, available_tokens)
         IN  [c EXCEPT !.history = system_messages \o kept,
                       !.total_tokens = SumTokens(system_messages \o kept),
                       !.removed = Len(other_messages) - Len(kept)]

\* Conversation._add_message(msg)
AddMessage(c, role, content) ==
    LET trimmed == IF c.autosize THEN TrimHistoryToFit(c, content) ELSE c
    IN  [trimmed EXCEPT
            !.history = Append(@, CachedMessage(role, content)),
            !.total_tokens = @ + CountTokens(content)]

\* The histories a Conversation is constructed with: the default empty
\* list or a list of messages given to the constructor.
InitialHistories ==
    {<< >>,
     << CachedMessage("system", "hi") >>,
     << CachedMessage("user", "hello world") >>}

\* Conversation(history=..., autosize=..., max_tokens=...,
\* convert_tools_to_assistant=...): _total_tokens is 0.
ConversationInit ==
    /\ raw = GraphPayload
    /\ dom = None
    /\ op = ""
    /\ arg = << >>
    /\ ret = NoCall
    /\ ResIdle
    /\ BufIdle
    /\ RetryIdle
    /\ env = NoEnv
    /\ \E history \in InitialHistories, autosize \in BOOLEAN,
          max_tokens \in {MaxTokens - 1, MaxTokens}, convert \in BOOLEAN :
        conversation = [NoConversation EXCEPT
                            !.history = history, !.autosize = autosize,
                            !.max_tokens = max_tokens,
                            !.convert_tools_to_assistant = convert]

\* What a call of the conversation leaves alone.
ConversationFrame ==
    /\ UNCHANGED treeVars
    /\ UNCHANGED resVars
    /\ UNCHANGED bufVars
    /\ UNCHANGED <<retry, env>>

\* A call that adds a message starts from no message removed.
Called(c, name) == [c EXCEPT !.op = name, !.removed = 0]

AddSystemMessage ==
    /\ Len(conversation.history) < MaxHistory
    /\ conversation' =
            AddMessage(Called(conversation, "add_system_message"),
                       "system", "hi")
    /\ ConversationFrame

\* add_user_message(content, image): a text with an image becomes a list
\* of a text object and an image object.
AddUserMessage ==
    /\ Len(conversation.history) < MaxHistory
    /\ \E image \in BOOLEAN :
        conversation' =
            AddMessage(Called(conversation, "add_user_message"), "user",
                       IF image THEN "[hi, image]" ELSE "hi")
    /\ ConversationFrame

AddAssistantMessage ==
    /\ Len(conversation.history) < MaxHistory
    /\ conversation' =
            AddMessage(Called(conversation, "add_assistant_message"),
                       "assistant", "hello world")
    /\ ConversationFrame

\* add_tool_message: a tool message with the dumped content, or, with
\* convert_tools_to_assistant, an assistant message of empty content that
\* carries the tool call.
AddToolMessage ==
    /\ Len(conversation.history) < MaxHistory
    /\ conversation' =
            IF ~conversation.convert_tools_to_assistant
            THEN AddMessage(Called(conversation, "add_tool_message"),
                            "tool", "hi")
            ELSE AddMessage(Called(conversation, "add_tool_message"),
                            "assistant", "")
    /\ ConversationFrame

\* trim_history_to_fit(new_content), called on its own.
ApplyTrimHistoryToFit ==
    /\ \E new_content \in {"hi", "hello world", "[hi, image]"} :
        conversation' =
            TrimHistoryToFit(Called(conversation, "trim_history_to_fit"),
                             new_content)
    /\ ConversationFrame

\* Conversation.reset()
ConversationReset ==
    /\ conversation' = [Called(conversation, "reset") EXCEPT
                            !.history = << >>, !.total_tokens = 0]
    /\ ConversationFrame

ConversationNext ==
    \/ AddSystemMessage
    \/ AddUserMessage
    \/ AddAssistantMessage
    \/ AddToolMessage
    \/ ApplyTrimHistoryToFit
    \/ ConversationReset

SpecConversation == ConversationInit /\ [][ConversationNext]_vars

----------------------------------------------------------------------------
(* SpecEnv: a NotteEnv (src/notte/env.py) is made and its methods are      *)
(* called one after another; _observe runs from one call of itself to the *)
(* next                                                                   *)

\* The largest max_steps and observe_max_retry_after_snapshot_update.
MaxSteps == 3
MaxRetry == 2

\* The pages the browser shows and the graph of each: the graph of the
\* resolution pipeline, and one with a single button.
EnvPages == {"p1", "p2"}

PageNode ==
    [p \in EnvPages |->
        IF p = "p1" THEN FromA11yNode(GraphPayload, << >>)
        ELSE FromA11yNode(
                A11yNode("WebArea", "", None, NoAttrs, FALSE,
                    << A11yNode("button", "Go", Some("B1"), NoAttrs, FALSE,
                                << >>) >>),
                << >>)]

\* [inode.id for inode in context.interaction_nodes()], for each page.
InodeIds ==
    [p \in EnvPages |->
        LET inodes == InteractionNodes(PageNode[p]).val[1]
        IN  {inodes[i].id[1] : i \in 1..Len(inodes)}]

\* The ids of BrowserActionId the model uses, that of the scrape action,
\* and BrowserAction.is_special.
BrowserActionIds == {"S1", "S2"}
ScrapeId == "S2"
IsSpecial(action_id) == action_id \in BrowserActionIds

\* The action ids given to execute and step; the actions given to
\* raw_step, an InteractionAction or not.
EnvActionIds == {"B1", "B2", "X9", "S1", "S2"}

\* context.node.find(action.id), for each page and id.
FindInPage ==
    [p \in EnvPages |-> [id \in EnvActionIds |-> Find(PageNode[p], id)]]
RawActions ==
    {[id |-> "B1", interaction |-> TRUE], [id |-> "X9", interaction |-> TRUE],
     [id |-> "S1", interaction |-> FALSE], [id |-> "S2", interaction |-> FALSE]}

\* What the browser answers to goto, snapshot and controller.execute; what
\* a pipe answers.
SnapshotAnswers == {Ok(p) : p \in EnvPages} \cup {Raise("BrowserError")}
PipeResults == {Ok("out"), Raise("PipeError")}

\* NotteEnv(config)
EnvInit ==
    /\ raw = GraphPayload
    /\ dom = None
    /\ op = ""
    /\ arg = << >>
    /\ ret = NoCall
    /\ ResIdle
    /\ BufIdle
    /\ RetryIdle
    /\ conversation = NoConversation
    /\ \E max_steps \in 0..MaxSteps, max_retry \in 0..MaxRetry :
        env = [NoEnv EXCEPT !.max_steps = max_steps, !.max_retry = max_retry]

EnvFrame ==
    /\ UNCHANGED treeVars
    /\ UNCHANGED resVars
    /\ UNCHANGED bufVars
    /\ UNCHANGED <<retry, conversation>>

\* A public method is called: the locals of the call before start afresh.
EnvCalled(e, name, action_id) ==
    [e EXCEPT !.pc = "idle", !.call = name, !.action_id = action_id,
              !.retry = 0, !.reobserved = 0, !.snapshot_changed = FALSE,
              !.preobserve = "", !.resolved = FALSE, !.executed = FALSE,
              !.outcome = NoCall]

\* The call raises; the call returns self.obs.
EnvRaise(e, err) == [e EXCEPT !.pc = "idle", !.outcome = Raise(err)]
EnvReturn(e) == [e EXCEPT !.pc = "idle", !.outcome = Ok("obs")]
Raised(e) == e.outcome.kind = "raise"

\* `if len(self.trajectory) >= self.config.max_steps` of _preobserve
PreobserveRaisesPastMaxSteps(e) == Len(e.trajectory) > e.max_steps

PreobserveRaises(e) == Len(e.trajectory) >= e.max_steps

\* NotteEnv._preobserve(snapshot, action)
Preobserve(e, snapshot, action) ==
    IF PreobserveRaises(e)
    THEN EnvRaise([e EXCEPT !.preobserve = "called"], "MaxStepsReachedError")
    ELSE [e EXCEPT !.preobserve = "called",
                   !.context = Some(snapshot),
                   !.trajectory = Append(@, action)]

\* NotteEnv.goto, given the browser's answer.
Goto(e, answer) ==
    IF answer.kind = "raise" THEN EnvRaise(e, answer.err)
    ELSE LET o == Preobserve(e, answer.val[1], "goto")
         IN  IF Raised(o) THEN o ELSE EnvReturn(o)

\* _observe is entered with its retry budget.
EnterObserve(e) ==
    [e EXCEPT !.pc = "_observe", !.retry = e.max_retry, !.outcome = NoCall]

\* NotteEnv.scrape once its goto is through: the scraping pipe on
\* self.context, then self.obs.
ScrapeData(e, scraped) ==
    IF e.context = None THEN EnvRaise(e, "NoContextObservedError")
    ELSE IF scraped.kind = "raise" THEN EnvRaise(e, scraped.err)
    ELSE EnvReturn(e)

\* The first test of execute: is the call handed over to scrape()?
ExecuteScrapes(action_id) == ~IsSpecial(action_id) /\ action_id = ScrapeId

\* NotteEnv.execute past that test, given what the resolution pipe and the
\* controller answer when they are called.
Execute(e, action_id, resolution, snapshot) ==
    IF IsSpecial(action_id) /\ e.context = None
    THEN EnvRaise(e, "NoContextObservedError")
    ELSE IF IsSpecial(action_id) /\ action_id \notin InodeIds[e.context[1]]
    THEN EnvRaise(e, "InvalidActionError")
    ELSE IF e.context = None
    THEN EnvRaise(e, "NoContextObservedError")
    ELSE LET found == FindInPage[e.context[1]][action_id]
             resolving == [e EXCEPT !.resolved = TRUE]
         IN  IF found.kind = "raise" THEN EnvRaise(resolving, found.err)
             ELSE IF found.kind = "none"
             THEN EnvRaise(resolving, NodeNotFoundError)
             ELSE IF resolution.kind = "raise"
             THEN EnvRaise(resolving, "FailedNodeResolutionError")
             ELSE IF snapshot.kind = "raise"
             THEN EnvRaise([resolving EXCEPT !.executed = TRUE], snapshot.err)
             ELSE LET o == Preobserve([resolving EXCEPT !.executed = TRUE],
                                      snapshot.val[1], "action")
                  IN  IF Raised(o) THEN o ELSE EnvReturn(o)

\* SimpleActionResolutionPipe.forward(action, context) for an action that
\* is no SelectDropdownOptionAction.
SimpleForward(action, context, has_selectors) ==
    IF ~action.interaction \/ context = None THEN Ok(action)
    ELSE IF action.id \notin InodeIds[context[1]]
    THEN Raise("InvalidActionError")
    ELSE IF ~has_selectors THEN Raise("InvalidInternalCheckError")
    ELSE Ok(action)

\* `... and retry > 0` of _observe: is the page observed again?
ReobservesWheneverChanged(changed, budget) == changed

Reobserves(changed, budget) == changed /\ budget > 0

EnvGoto ==
    /\ env.pc = "idle"
    /\ \E answer \in SnapshotAnswers :
        env' = Goto(EnvCalled(env, "goto", ""), answer)
    /\ EnvFrame

\* observe(url): goto, then _observe with the configured budget.
EnvObserve ==
    /\ env.pc = "idle"
    /\ \E answer \in SnapshotAnswers :
        LET o == Goto(EnvCalled(env, "observe", ""), answer)
        IN  env' = IF Raised(o) THEN o ELSE EnterObserve(o)
    /\ EnvFrame

\* One run of the body of _observe: the action space pipe, the check of
\* the snapshot when the listing was slow, then either _preobserve and the
\* call of _observe with retry - 1, or the data scraping and the return.
Observe ==
    /\ env.pc = "_observe"
    /\ \E space \in PipeResults, late \in BOOLEAN,
          check \in SnapshotAnswers, scraped \in PipeResults :
        LET changed == check.kind = "ok" /\ Some(check.val[1]) # env.context
            e == [env EXCEPT !.preobserve = "",
                             !.snapshot_changed = late /\ changed]
        IN  env' =
            IF space.kind = "raise" THEN
                EnvRaise([e EXCEPT !.snapshot_changed = FALSE], space.err)
            ELSE IF late /\ check.kind = "raise" THEN EnvRaise(e, check.err)
            ELSE IF late /\ Reobserves(changed, env.retry) THEN
                LET o == Preobserve(e, check.val[1], "wait")
                IN  IF Raised(o) THEN o
                    ELSE [o EXCEPT !.retry = env.retry - 1,
                                   !.reobserved = @ + 1]
            ELSE IF scraped.kind = "raise" THEN EnvRaise(e, scraped.err)
            ELSE EnvReturn(e)
    /\ EnvFrame

EnvExecute ==
    /\ env.pc = "idle"
    /\ \E action_id \in EnvActionIds :
        LET e == EnvCalled(env, "execute", action_id)
        IN  IF ExecuteScrapes(action_id)
            THEN \E scraped \in PipeResults : env' = ScrapeData(e, scraped)
            ELSE \E resolution \in PipeResults, snapshot \in SnapshotAnswers :
                    env' = Execute(e, action_id, resolution, snapshot)
    /\ EnvFrame

\* step(action_id): execute, then _observe with the configured budget.
EnvStep ==
    /\ env.pc = "idle"
    /\ \E action_id \in EnvActionIds :
        LET e == EnvCalled(env, "step", action_id)
        IN  IF ExecuteScrapes(action_id)
            THEN \E scraped \in PipeResults :
                    LET o == ScrapeData(e, scraped)
                    IN  env' = IF Raised(o) THEN o ELSE EnterObserve(o)
            ELSE \E resolution \in PipeResults, snapshot \in SnapshotAnswers :
                    LET o == Execute(e, action_id, resolution, snapshot)
                    IN  env' = IF Raised(o) THEN o ELSE EnterObserve(o)
    /\ EnvFrame

\* raw_step(action): god() for the scrape action; otherwise the simple
\* resolution, the controller, _preobserve and _observe.
EnvRawStep ==
    /\ env.pc = "idle"
    /\ \E action \in RawActions :
        LET e == EnvCalled(env, "raw_step", action.id)
        IN  IF IsSpecial(action.id) /\ action.id = ScrapeId
            THEN \E scraped \in PipeResults : env' = ScrapeData(e, scraped)
            ELSE \E has_selectors \in BOOLEAN, snapshot \in SnapshotAnswers :
                LET resolved == SimpleForward(action, env.context,
                                              has_selectors)
                IN  env' =
                    IF resolved.kind = "raise"
                    THEN EnvRaise(e, resolved.err)
                    ELSE IF snapshot.kind = "raise"
                    THEN EnvRaise([e EXCEPT !.executed = TRUE], snapshot.err)
                    ELSE LET o == Preobserve([e EXCEPT !.executed = TRUE],
                                             snapshot.val[1], "action")
                         IN  IF Raised(o) THEN o ELSE EnterObserve(o)
    /\ EnvFrame

\* scrape(url): goto when a url is given, then the scraping pipe.
EnvScrape ==
    /\ env.pc = "idle"
    /\ \E url \in BOOLEAN, answer \in SnapshotAnswers,
          scraped \in PipeResults :
        LET e == EnvCalled(env, "scrape", "")
            o == IF url THEN Goto(e, answer) ELSE e
        IN  env' = IF Raised(o) THEN o ELSE ScrapeData(o, scraped)
    /\ EnvFrame

\* reset(): the trajectory and the context are dropped, then the browser
\* is reset.
EnvReset ==
    /\ env.pc = "idle"
    /\ \E answer \in {ReturnsNone, Raise("BrowserError")} :
        env' = [EnvCalled(env, "reset", "") EXCEPT
                    !.trajectory = << >>, !.context = None,
                    !.outcome = answer]
    /\ EnvFrame

EnvNext ==
    \/ EnvGoto
    \/ EnvObserve
    \/ Observe
    \/ EnvExecute
    \/ EnvStep
    \/ EnvRawStep
    \/ EnvScrape
    \/ EnvReset

SpecEnv == EnvInit /\ [][EnvNext]_vars

\* A call of _observe that was made runs.
SpecEnvFair == SpecEnv /\ WF_vars(Observe)

----------------------------------------------------------------------------
(* SpecSelect: SimpleActionResolutionPipe.resolve_selector_locators is     *)
(* applied to a SelectDropdownOptionAction and the interaction nodes of a *)
(* context                                                                *)

\* Most interaction nodes of the context.
MaxInodes == 3

\* The roles that make a node the selector node; the role of an option.
SelectRoles == {"combobox", "listbox", "list"}
OptionRole == "option"

\* An interaction node as the function reads it: id, get_role_str(), text
\* and computed_attributes.selectors.
Inode(id, role, text, node_selectors) ==
    [id |-> id, role |-> role, text |-> text, selectors |-> node_selectors]

InodePool ==
    {Inode("C1", "combobox", "", Some("sel:C1")),
     Inode("L1", "listbox", "red", Some("sel:L1")),
     Inode("U1", "list", "", None),
     Inode("O1", "option", "red", Some("sel:O1")),
     Inode("O2", "option", "blue", None),
     Inode("B1", "button", "red", Some("sel:B1"))}

\* The lists of interaction nodes: no node twice.
InodeLists ==
    {inodes \in UNION {[1..n -> InodePool] : n \in 0..MaxInodes} :
        \A i, j \in DOMAIN inodes : inodes[i] = inodes[j] => i = j}

\* The actions: the option is named by its id, by its text, or by both.
SelectActions ==
    {[option_id |-> option_id, value |-> value,
      selector |-> None, option_selector |-> None]
        : option_id \in {None, Some("O1"), Some("L1")},
          value \in {None, Some("red")}}

\* The first `if` of the loop body: snode after the node was looked at.
SelectorNodeFirstSeen(snode, inode) ==
    IF snode = None /\ inode.role \in SelectRoles THEN Some(inode)
    ELSE snode

SelectorNode(snode, inode) ==
    IF inode.role \in SelectRoles THEN Some(inode) ELSE snode

\* The second `if` of the loop body: is the node the option asked for?
IsOption(action, inode) ==
    \/ action.option_id # None /\ inode.id = action.option_id[1]
    \/ /\ action.value # None
       /\ inode.text = action.value[1]
       /\ inode.role = OptionRole

\* The loop of resolve_selector_locators from node i on, and the raise
\* after it.
RECURSIVE ResolveFrom(_, _, _, _)
ResolveFrom(action, inodes, i, snode) ==
    IF i > Len(inodes) THEN Raise("InvalidInternalCheckError")
    ELSE LET inode == inodes[i]
             current == SelectorNode(snode, inode)
         IN  IF IsOption(action, inode)
             THEN IF current = None THEN Raise("ValueError")
                  ELSE IF inode.selectors = None
                          \/ current[1].selectors = None
                  THEN Raise("InvalidInternalCheckError")
                  ELSE Ok([action EXCEPT
                            !.option_selector = inode.selectors,
                            !.selector = current[1].selectors])
             ELSE ResolveFrom(action, inodes, i + 1, current)

ResolveSelectorLocators(action, inodes) ==
    ResolveFrom(action, inodes, 1, None)

SelectInit ==
    /\ raw = GraphPayload
    /\ dom = None
    /\ op = ""
    /\ \E action \in SelectActions, inodes \in InodeLists :
            arg = << action, inodes >>
    /\ ret = NoCall
    /\ ResIdle
    /\ BufIdle
    /\ RetryIdle
    /\ EnvIdle

\* resolve_selector_locators(action, context)
ApplyResolveSelectorLocators ==
    /\ op = ""
    /\ op' = "resolve_selector_locators"
    /\ ret' = ResolveSelectorLocators(arg[1], arg[2])
    /\ UNCHANGED <<raw, dom, arg>>
    /\ UNCHANGED resVars
    /\ UNCHANGED bufVars
    /\ UNCHANGED retry
    /\ UNCHANGED envVars

SelectNext ==
    \/ ApplyResolveSelectorLocators

SpecSelect == SelectInit /\ [][SelectNext]_vars


----------------------------------------------------------------------------
(* Claims about the tree algorithms, checked under SpecTree *)

ToSet(seq) == {seq[i] : i \in 1..Len(seq)}
NoDuplicates(seq) == \A i, j \in 1..Len(seq) : seq[i] = seq[j] => i = j

\* The ids present in a payload, a parent before its children.
RECURSIVE PayloadIds(_)
PayloadIds(n) ==
    n.id \o Concat([i \in 1..Len(n.children) |-> PayloadIds(n.children[i])])

\* The texts inner_text would join if it left a child out exactly when the
\* child is marked hidden, not visible or not enabled.
RECURSIVE TextsOfEligibleChildren(_, _)
TextsOfEligibleChildren(children, i) ==
    IF i > Len(children) THEN << >>
    ELSE (IF ChildTextKeptAsCommented(children[i], InnerText(children[i]))
          THEN << InnerText(children[i]) >> ELSE << >>)
         \o TextsOfEligibleChildren(children, i + 1)

\* C7 (as claimed): the inner text of a non-text node is the join of its
\* children's inner texts, a child being left out exactly when it is
\* explicitly hidden, explicitly not visible or explicitly not enabled.
C7_InnerTextSkipsExactlyMarkedChildren ==
    (op = "inner_text" /\ arg[1].type # "TEXT") =>
        ret.val[1] = Join(" ", TextsOfEligibleChildren(arg[1].children, 1))

\* C8 (as claimed): to_interaction_node succeeds if and only if the node's
\* kind is Interaction, its id is present and it has no children.
C8_CoercionRefusesChildren ==
    op = "to_interaction_node" =>
        (ret.kind = "ok" <=>
            /\ arg[1].type = "INTERACTION"
            /\ arg[1].id # None
            /\ Len(arg[1].children) = 0)

\* C8 (amended): to_interaction_node succeeds if and only if the node's
\* kind is Interaction and its id is present; the node it returns has that
\* id and no children, whatever children the argument had; in every other
\* case it raises InvalidInternalCheckError.
C8_CoercionByKindAndId ==
    op = "to_interaction_node" =>
        IF arg[1].type = "INTERACTION" /\ arg[1].id # None
        THEN /\ ret.kind = "ok"
             /\ ret.val[1].id = arg[1].id
             /\ ret.val[1].type = "INTERACTION"
             /\ ret.val[1].children = << >>
        ELSE ret = Raise("InvalidInternalCheckError")

\* C8 witness: a node with children was coerced.
C8_CoercedNodeWithChildren ==
    /\ op = "to_interaction_node"
    /\ ret.kind = "ok"
    /\ Len(arg[1].children) > 0

\* C9: in a graph built by from_a11y_node every node's subtree_ids is its
\* own id (if present) followed by its children's subtree_ids, the root's
\* subtree_ids are exactly the ids present in the payload, and they hold no
\* duplicate when the payload's ids are distinct.
C9_SubtreeIdsAreThePayloadIds ==
    dom # None =>
        /\ \A i \in 1..Len(Nodes(dom[1])) :
            LET n == Nodes(dom[1])[i]
            IN  n.subtree_ids =
                    n.id \o Concat([k \in 1..Len(n.children) |->
                                        n.children[k].subtree_ids])
        /\ dom[1].subtree_ids = PayloadIds(raw)
        /\ ToSet(dom[1].subtree_ids) = ToSet(PayloadIds(raw))
        /\ NoDuplicates(PayloadIds(raw)) => NoDuplicates(dom[1].subtree_ids)

\* C9 witness: a built graph three levels deep with two distinct ids, one
\* of them at the deepest level.
C9_DeepGraphBuilt ==
    /\ dom # None
    /\ Len(dom[1].children) = 1
    /\ Len(dom[1].children[1].children) = 1
    /\ dom[1].children[1].children[1].id # None
    /\ Cardinality(ToSet(dom[1].subtree_ids)) = 2

\* The positions, in pre-order, of the nodes whose id is the one requested.
MatchesOf(n, id) == {i \in 1..Len(Nodes(n)) : Nodes(n)[i].id = Some(id)}
FirstMatch(n, id) ==
    Nodes(n)[CHOOSE i \in MatchesOf(n, id) : \A j \in MatchesOf(n, id) : i <= j]

\* C10: find(id) returns none when no node has the id; otherwise it looks
\* at the first node in pre-order with that id only: it returns that node
\* as an interaction node (same id, role, text and computed attributes, no
\* children), or raises InvalidInternalCheckError when the node's kind is
\* not Interaction.
C10_FindFirstInPreOrder ==
    op = "find" =>
        IF MatchesOf(dom[1], arg[1]) = {} THEN ret = ReturnsNone
        ELSE LET first == FirstMatch(dom[1], arg[1])
             IN  IF first.type = "INTERACTION"
                 THEN /\ ret.kind = "ok"
                      /\ ret.val[1].id = Some(arg[1])
                      /\ ret.val[1].type = "INTERACTION"
                      /\ ret.val[1].role = first.role
                      /\ ret.val[1].text = first.text
                      /\ ret.val[1].computed = first.computed
                      /\ ret.val[1].children = << >>
                 ELSE ret = Raise("InvalidInternalCheckError")

\* C10 witness: find returned the first of two nodes with the requested
\* id, the second being a text node below it.
C10_FoundFirstOfTwo ==
    /\ op = "find"
    /\ ret.kind = "ok"
    /\ Cardinality(MatchesOf(dom[1], arg[1])) = 2
    /\ \E i \in MatchesOf(dom[1], arg[1]) : Nodes(dom[1])[i].type = "TEXT"
    /\ dom[1].id = Some(arg[1])

----------------------------------------------------------------------------
(* Claims about the resolution pipeline, checked under Spec *)

\* The candidates of the running call, as the bundle lists them: the
\* engine-specific selector if there is one, then CSS, then XPath.
Candidates ==
    IF bundle = None THEN << >>
    ELSE (IF bundle[1].playwright_selector = None THEN << >>
          ELSE << bundle[1].playwright_selector[1] >>)
         \o << bundle[1].css_selector, bundle[1].xpath_selector >>

\* Has the pair (c, f) had its turn in the loop of get_valid_locator?
PairDone(c, f) ==
    /\ cand > 0
    /\ \/ c < cand
       \/ c = cand /\ f < frame
       \/ c = cand /\ f = frame /\ pc # "count"

\* The candidate the loop is at has answered 1 in some frame.
CurrentHasOne == page # << >> /\ \E f \in Frames : page[f] = Ok(1)

\* C1: the pairs are probed in bundle order, every frame of a candidate
\* before the next candidate, each pair once, and nothing is probed after
\* the first pair that answers exactly 1, which is the one accepted.  With
\* three candidates of which the 1st answers 0 in every frame and the 2nd
\* answers 1 in some frame, the 2nd (CSS) selector is the one accepted and
\* returned, and the 3rd is never probed.
C1_ProbedInOrderUntilFirstUnique ==
    /\ \A c \in 1..MaxCandidates, f \in Frames :
        nprobes[<<c, f>>] =
            IF c <= Len(Candidates) /\ PairDone(c, f) THEN 1 ELSE 0
    /\ locator # None =>
        /\ locator[1].selector = Candidates[cand]
        /\ locator[1].frame = frame
        /\ Len(seen) = cand
        /\ \A c \in 1..(cand - 1) : seen[c] # "one"
        /\ page # << >> =>
            /\ page[frame] = Ok(1)
            /\ \A f \in 1..(frame - 1) : page[f] # Ok(1)
    /\ ( /\ Len(Candidates) = 3
         /\ Len(seen) >= 1
         /\ seen[1] = "zero"
         /\ \/ Len(seen) >= 2 /\ seen[2] = "one"
            \/ Len(seen) = 1 /\ cand = 2 /\ CurrentHasOne )
       =>
        /\ cand = 2
        /\ \A f \in Frames : nprobes[<<3, f>>] = 0
        /\ pc # "count" =>
            /\ locator # None
            /\ locator[1].selector = bundle[1].css_selector
        /\ pc = "done" =>
            outcome.val[1].locator.selector.playwright_selector
                = Some(bundle[1].css_selector)

\* C1 witness: with three candidates, the 1st answered 0 everywhere, the
\* 2nd answered 1 in the second frame, and the call returned.
C1_SecondOfThreeReturned ==
    /\ pc = "done"
    /\ Len(Candidates) = 3
    /\ seen = << "zero", "one" >>
    /\ frame = 2

\* C2: a ResolvedLocator (and the ExecutableAction around it) is produced
\* only when the accepted element was probed visible and enabled; when both
\* probes answered and one of them answered no, the call fails with
\* FailedNodeResolutionError.
C2_ReturnedOnlyIfVisibleAndEnabled ==
    /\ outcome.kind = "ok" =>
        /\ pc = "done"
        /\ locator # None
        /\ probed.visible = Some(TRUE)
        /\ probed.enabled = Some(TRUE)
    /\ ( /\ probed.visible # None
         /\ probed.enabled # None
         /\ ~probed.visible[1] \/ ~probed.enabled[1] )
       => /\ pc = "failed"
          /\ outcome = Raise("FailedNodeResolutionError")

\* C2 witness: the accepted element was probed visible but not enabled and
\* the call failed.
C2_DisabledElementRefused ==
    /\ pc = "failed"
    /\ locator # None
    /\ probed.visible = Some(TRUE)
    /\ probed.enabled = Some(FALSE)

\* C3 (as claimed): when a pair is accepted, its selector matches nothing
\* in any other live frame, so that it is unique in the page as a whole.
C3_AcceptedUniqueInWholePage ==
    (locator # None /\ page # << >>) =>
        \A f \in Frames \ {locator[1].frame} : page[f] \notin {Ok(1), Ok(2)}

\* C3 (amended): when a pair is accepted, its selector matches exactly one
\* element in the frame of the pair; what it matches in the other frames
\* is not looked at.  A call that returns has accepted such a pair.
C3_AcceptedUniqueInItsFrame ==
    /\ (locator # None /\ page # << >>) => page[locator[1].frame] = Ok(1)
    /\ locator # None => (Len(seen) = cand /\ seen[cand] = "one")
    /\ outcome.kind = "ok" => locator # None

\* C3 witness: a pair was accepted while its selector also matches one
\* element in another frame.
C3_AcceptedWithMatchInOtherFrame ==
    /\ pc = "is_editable"
    /\ locator # None
    /\ \E f \in Frames \ {locator[1].frame} : page[f] = Ok(1)

\* Every answer the page has given the running call is a count of 0 or of
\* 2 or more.
OnlyZeroOrManySoFar ==
    /\ cand > 0
    /\ \A c \in 1..Len(seen) : seen[c] \in {"zero", "many"}
    /\ page # << >>
    /\ \A f \in Frames : page[f] \in {Ok(0), Ok(2)}

\* C4: as long as every pair answers 0 or at least 2, nothing is accepted
\* and no state probe is made; the call can only end by raising
\* FailedUniqueLocatorResolutionError, after every pair was probed.
C4_NoUniquePairFails ==
    OnlyZeroOrManySoFar =>
        /\ locator = None
        /\ order = << >>
        /\ probed = NoStateProbes
        /\ pc \in {"count", "failed"}
        /\ pc = "failed" =>
            /\ outcome = Raise("FailedUniqueLocatorResolutionError")
            /\ \A c \in 1..Len(Candidates), f \in Frames :
                nprobes[<<c, f>>] = 1

\* C4 witness: three candidates answered 0 or at least 2 everywhere, one
\* of them 2, and the call failed.
C4_AllPairsRejected ==
    /\ pc = "failed"
    /\ OnlyZeroOrManySoFar
    /\ Len(seen) = 2
    /\ "many" \in {seen[1], seen[2]}
    /\ AnswerClass(page) = "zero"

\* C5: selectors that are set are never unset nor overwritten; a call
\* starts the fallback lookup only for a node whose selectors are unset;
\* and the bundle a call works on is the one stored on the node.
C5_SelectorsSetAtMostOnce ==
    [][ /\ \A o \in DOMAIN selectors :
            selectors[o] # None => selectors'[o] = selectors[o]
        /\ (pc' = "get_locator_for_node_id" /\ pc # pc') =>
            selectors[node'[1].computed.obj] = None
        /\ lookups' > lookups =>
            selectors[node'[1].computed.obj] = None
        /\ bundle' # None => bundle' = selectors'[node'[1].computed.obj]
      ]_vars

\* C5 witness: a call resolves, without any fallback lookup, a node whose
\* selectors an earlier call stored.
C5_ResolvedFromCache ==
    /\ pc = "done"
    /\ lookups = 0
    /\ bundle # None
    /\ bundle = selectors[node[1].computed.obj]

\* C6 (as claimed): an action id absent from the graph fails with an error
\* kind of its own, distinct from the one raised on an id mismatch.
C6_NodeNotFoundIsItsOwnErrorKind ==
    (pc = "failed" /\ MatchesOf(dom[1], req) = {}) =>
        outcome.err # IdMismatchError

\* C6 (amended): an action id absent from the graph fails with
\* InvalidInternalCheckError, the error class also raised on an id
\* mismatch, before any fallback lookup or probe.
C6_AbsentIdFailsAtOnce ==
    (req # "" /\ MatchesOf(dom[1], req) = {}) =>
        /\ pc = "failed"
        /\ outcome = Raise("InvalidInternalCheckError")
        /\ outcome.err = IdMismatchError
        /\ node = None
        /\ lookups = 0
        /\ nprobes = NoProbes
        /\ locator = None
        /\ order = << >>

\* C6 witness: after a node was resolved, a call with an absent id failed.
C6_AbsentIdFailed ==
    /\ pc = "failed"
    /\ req = "missing"
    /\ \E o \in DOMAIN selectors : selectors[o] # None

----------------------------------------------------------------------------
(* Claims about the filters and queries, checked under SpecQuery *)

\* The result of the tree operation applied, when it returned a node.
Returned == ret.val[1]

\* a is a proper prefix of b: the node at path a is a proper ancestor of
\* the node at path b.
IsProperAncestor(a, b) == Len(a) < Len(b) /\ SubSeq(b, 1, Len(a)) = a

\* a comes before b in the pre-order of the tree (lexicographic order of
\* the paths, a parent before its children).
RECURSIVE PathBefore(_, _)
PathBefore(a, b) ==
    IF Len(a) = 0 THEN Len(b) > 0
    ELSE IF Len(b) = 0 THEN FALSE
    ELSE IF a[1] = b[1] THEN PathBefore(Tail(a), Tail(b))
    ELSE a[1] < b[1]

\* The paths of the nodes of a payload.
RECURSIVE PayloadPaths(_, _)
PayloadPaths(n, path) ==
    {path} \cup UNION {PayloadPaths(n.children[i], Append(path, i))
                        : i \in 1..Len(n.children)}

\* The node of the built graph at a path.
NodeAt(path) ==
    Nodes(dom[1])[CHOOSE i \in 1..Len(Nodes(dom[1])) :
                        Nodes(dom[1])[i].computed.obj = path]

PathsOf(nodes) == [i \in 1..Len(nodes) |-> nodes[i].computed.obj]

StrictlyInPreOrder(nodes) ==
    \A i, j \in 1..Len(nodes) :
        i < j => PathBefore(nodes[i].computed.obj, nodes[j].computed.obj)

\* The predicates whose value on a node depends on the node's own id, kind,
\* role, text, attributes and computed attributes only.
OwnFieldPredicates == {"any", "has_id", "not_text_role", "is_dialog"}

\* C11 (as claimed): for any predicate, filtering the tree subtree_filter
\* returned again with the same predicate returns that same tree.
C11_FilterIdempotentForAnyPredicate ==
    (op = "subtree_filter" /\ ret.kind = "ok") =>
        SubtreeFilter(Returned, Predicate(arg[1])) = Some(Returned)

\* C11 (amended): for a predicate that reads only the node's own fields
\* (not its children or subtree_ids), filtering the tree subtree_filter
\* returned again with the same predicate returns a tree of the same shape,
\* ids, roles and texts.
C11_FilterIdempotentForOwnFieldPredicates ==
    (op = "subtree_filter" /\ ret.kind = "ok"
     /\ arg[1] \in OwnFieldPredicates) =>
        SubtreeFilter(Returned, Predicate(arg[1])) = Some(Returned)

\* C11 witness: a filter by an own-field predicate removed part of a tree
\* and kept more than its root.
C11_FilteredPartOfTree ==
    /\ op = "subtree_filter"
    /\ ret.kind = "ok"
    /\ arg[1] \in OwnFieldPredicates
    /\ Len(Nodes(Returned)) = 2
    /\ Len(Nodes(dom[1])) = 3

\* C12 (as claimed): the tree subtree_without(roles) returns holds no node
\* whose role is in roles, unknown role strings included.
C12_NoExcludedRoleRemains ==
    (op = "subtree_without" /\ ret.kind = "ok") =>
        \A i \in 1..Len(Nodes(Returned)) :
            Nodes(Returned)[i].role \notin arg[1]

\* C13 (as claimed): subtree_without(roles) on a tree in which every
\* node's role is in roles raises NodeFilteringResultsInEmptyGraph.
C13_AllRolesExcludedRaises ==
    (/\ op = "subtree_without"
     /\ \A i \in 1..Len(Nodes(dom[1])) : Nodes(dom[1])[i].role \in arg[1]) =>
        ret = Raise("NodeFilteringResultsInEmptyGraph")

\* A node is a dead branch once filtered: it has no id, a blank text and
\* no child that survives.
RECURSIVE Survives(_, _)
Survives(n, p) ==
    /\ Holds(p, n)
    /\ \/ n.id # None
       \/ Strip(n.text) # ""
       \/ \E i \in 1..Len(n.children) : Survives(n.children[i], p)

\* The node at a path of the graph and all its ancestors survive.
KeptPaths(p) ==
    {path \in PayloadPaths(raw, << >>) :
        \A k \in 0..Len(path) : Survives(NodeAt(SubSeq(path, 1, k)), p)}

IsDeadLeaf(n) == n.id = None /\ Len(n.children) = 0 /\ Strip(n.text) = ""

\* C14 (as claimed): every node of the tree subtree_filter(p) returns
\* satisfies p and none is a leaf without id and with a blank text;
\* subtree_filter returns none exactly when p rejects the root or the root
\* is such a dead branch after its children were filtered.
C14_EveryKeptNodeSatisfiesPredicate ==
    op = "subtree_filter" =>
        /\ ret.kind = "none" <=> ~Survives(dom[1], arg[1])
        /\ ret.kind = "ok" =>
             \A i \in 1..Len(Nodes(Returned)) :
                /\ Holds(arg[1], Nodes(Returned)[i])
                /\ ~IsDeadLeaf(Nodes(Returned)[i])

\* C14 (amended): every node of the tree subtree_filter(p) returns is
\* rebuilt from a node of the input that p accepted (and satisfies p itself
\* when p reads the node's own fields only), and none is a leaf without id
\* and with a blank text; the nodes kept are, in their order, exactly those
\* that survive with all their ancestors; subtree_filter returns none
\* exactly when p rejects the root or the root is a dead branch after its
\* children were filtered.
C14_KeptNodesWereAcceptedAndAreAlive ==
    op = "subtree_filter" =>
        /\ ret.kind = "none" <=> ~Survives(dom[1], arg[1])
        /\ ret.kind = "ok" =>
             /\ \A i \in 1..Len(Nodes(Returned)) :
                  LET kept == Nodes(Returned)[i]
                      source == NodeAt(kept.computed.obj)
                  IN  /\ Holds(arg[1], source)
                      /\ arg[1] \in OwnFieldPredicates => Holds(arg[1], kept)
                      /\ ~IsDeadLeaf(kept)
                      /\ kept.id = source.id /\ kept.role = source.role
                      /\ kept.text = source.text /\ kept.type = source.type
             /\ ToSet(PathsOf(Nodes(Returned))) = KeptPaths(arg[1])
             /\ StrictlyInPreOrder(Nodes(Returned))

\* C14 witness: the predicate accepted every node, and the filter still
\* removed a dead branch of two nodes below a root it kept.
C14_DeadBranchRemoved ==
    /\ op = "subtree_filter"
    /\ arg[1] = "any"
    /\ ret.kind = "ok"
    /\ Len(Nodes(dom[1])) = 3
    /\ Len(dom[1].children) = 1
    /\ Len(Nodes(Returned)) = 1

\* The positions, in pre-order, of the in-viewport dialogs of the graph.
DialogsInViewport ==
    {i \in 1..Len(Nodes(dom[1])) :
        /\ Nodes(dom[1])[i].role = "dialog"
        /\ Nodes(dom[1])[i].computed.in_viewport}

\* C15: prune_non_dialogs_if_present returns only in-viewport dialogs when
\* the tree holds one at any depth (also below a dialog out of the
\* viewport), each of them returned or below a returned one; it returns
\* exactly the root otherwise; the result is never empty.
C15_OnlyDialogsWhenOnePresent ==
    op = "prune_non_dialogs_if_present" =>
        /\ Len(Returned) > 0
        /\ IF DialogsInViewport = {}
           THEN Returned = << dom[1] >>
           ELSE /\ \A k \in 1..Len(Returned) :
                     /\ Returned[k].role = "dialog"
                     /\ Returned[k].computed.in_viewport
                     /\ Returned[k] = NodeAt(Returned[k].computed.obj)
                /\ \A i \in DialogsInViewport :
                     \E k \in 1..Len(Returned) :
                        LET top == Returned[k].computed.obj
                            path == Nodes(dom[1])[i].computed.obj
                        IN  top = path \/ IsProperAncestor(top, path)

\* C15 witness: the only in-viewport dialog lies below a dialog that is
\* out of the viewport, and it alone is returned.
C15_DialogBelowHiddenDialog ==
    /\ op = "prune_non_dialogs_if_present"
    /\ dom[1].role = "dialog"
    /\ ~dom[1].computed.in_viewport
    /\ Cardinality(DialogsInViewport) = 1
    /\ Len(Returned) = 1
    /\ Len(Returned[1].computed.obj) > 0

\* The nodes of the graph, in pre-order, that satisfy p and have no proper
\* ancestor that satisfies p.
TopmostMatches(p) ==
    LET IsTopmost(n) ==
            /\ Holds(p, n)
            /\ \A k \in 0..(Len(n.computed.obj) - 1) :
                 ~Holds(p, NodeAt(SubSeq(n.computed.obj, 1, k)))
    IN  SelectSeq(Nodes(dom[1]), IsTopmost)

\* C16: find_all_matching_subtrees_with_parents returns, in pre-order,
\* exactly the nodes that satisfy the predicate and have no ancestor that
\* satisfies it; no returned node is below another returned node; the
\* predicate is called on no node below a node that satisfies it, and on
\* no node twice.
C16_TopmostMatchesOnly ==
    op = "find_all_matching_subtrees_with_parents" =>
        /\ Returned.matches = TopmostMatches(arg[1])
        /\ StrictlyInPreOrder(Returned.matches)
        /\ \A i, j \in 1..Len(Returned.matches) :
             ~IsProperAncestor(Returned.matches[i].computed.obj,
                               Returned.matches[j].computed.obj)
        /\ StrictlyInPreOrder(Returned.evaluated)
        /\ \A i \in 1..Len(Returned.evaluated) :
             \A k \in 0..(Len(Returned.evaluated[i].computed.obj) - 1) :
                ~Holds(arg[1],
                       NodeAt(SubSeq(Returned.evaluated[i].computed.obj, 1, k)))

\* C16 witness: below a root that does not satisfy the predicate, a node
\* that satisfies it lies below another that does; the upper one alone is
\* returned and the predicate is never called on the lower one.
C16_MatchBelowMatchSkipped ==
    /\ op = "find_all_matching_subtrees_with_parents"
    /\ Len(Returned.matches) = 1
    /\ Len(Returned.evaluated) = 2
    /\ Len(Nodes(dom[1])) = 3
    /\ Cardinality({i \in 1..3 : Holds(arg[1], Nodes(dom[1])[i])}) = 2

\* C17 (as claimed): flatten(false) is every node once in pre-order, and
\* flatten(true) is the subsequence of the nodes whose kind is Interaction,
\* that is, the nodes with an id and an interactive role category.
C17_FlattenKeepsInteractionKind ==
    op = "flatten" =>
        IF arg[1]
        THEN LET IsKind(n) == n.type = "INTERACTION"
                 IsIdAndCategory(n) ==
                    n.id # None /\ RoleCategory(n.role) = "INTERACTION"
             IN  /\ Returned = SelectSeq(Nodes(dom[1]), IsKind)
                 /\ Returned = SelectSeq(Nodes(dom[1]), IsIdAndCategory)
        ELSE /\ ToSet(PathsOf(Returned)) = PayloadPaths(raw, << >>)
             /\ StrictlyInPreOrder(Returned)

\* C17 (amended): flatten(false) is every node once in pre-order, and
\* flatten(true) is the subsequence of the nodes that have an id and a
\* known role and whose kind is Interaction or whose role category is
\* interactive: in a built graph, the nodes with an id and a known role
\* that is not textual.  A node of unknown role is left out though its kind
\* is Interaction; a node with an id and a structural role is kept.
C17_FlattenKeepsKnownRolesWithId ==
    op = "flatten" =>
        /\ \A i \in 1..Len(Returned) :
             Returned[i] = NodeAt(Returned[i].computed.obj)
        /\ StrictlyInPreOrder(Returned)
        /\ IF arg[1]
           THEN ToSet(PathsOf(Returned)) =
                    {path \in PayloadPaths(raw, << >>) :
                        LET n == NodeAt(path)
                        IN  /\ n.id # None
                            /\ n.role \in KnownRoles
                            /\ RoleCategory(n.role) # "TEXT"}
           ELSE ToSet(PathsOf(Returned)) = PayloadPaths(raw, << >>)

\* C17 witness: flatten(true) kept a structural node that carries an id
\* and left out a node of unknown role that carries one.
C17_StructuralKeptUnknownLeftOut ==
    /\ op = "flatten"
    /\ arg[1]
    /\ Len(Returned) = 1
    /\ RoleCategory(Returned[1].role) = "STRUCTURAL"
    /\ \E i \in 1..Len(Nodes(dom[1])) :
         /\ Nodes(dom[1])[i].role \notin KnownRoles
         /\ Nodes(dom[1])[i].type = "INTERACTION"

----------------------------------------------------------------------------
(* Claims about the diagnostic buffer, checked under SpecBuffer *)

IsPrefix(a, b) == Len(a) <= Len(b) /\ SubSeq(b, 1, Len(a)) = a

\* The first n characters of a text, the whole text when it is shorter.
FirstChars(text, n) ==
    [i \in 1..(IF Len(text) < n THEN Len(text) ELSE n) |-> text[i]]

\* The samples a buffer holds for a key, none when the key is absent.
SamplesOf(buf, key) == IF key \in DOMAIN buf THEN buf[key] ELSE << >>

\* Every key holds at most 5 samples, all distinct, each of at most 50
\* characters.
BufferBounded(buf) ==
    \A key \in DOMAIN buf :
        /\ Len(buf[key]) <= 5
        /\ NoDuplicates(buf[key])
        /\ \A i \in 1..Len(buf[key]) : Len(buf[key][i]) <= 50

\* C18: after any sequence of DomAttributes.init (add_error) and flush
\* calls every key of the buffer holds at most 5 samples, all distinct,
\* each of at most 50 characters; a call that reports a key keeps the
\* samples the key had, in their order, stores the reported value's sample
\* when fewer than 5 were held, and stores nothing in a full list: of 6
\* values with distinct samples the first 5 stay.
C18_AtMostFiveDistinctShortSamples ==
    [][/\ BufferBounded(buffer')
       /\ op' = "DomAttributes.init" =>
            \A key \in ExtraKeys(arg'[1]) :
                LET before == SamplesOf(buffer, key)
                    after == SamplesOf(buffer', key)
                    sample == FirstChars(Str(NormalizedKwargs(arg'[1])[key]), 50)
                IN  /\ key \in DOMAIN buffer'
                    /\ IsPrefix(before, after)
                    /\ Len(before) < 5 => sample \in ToSet(after)
                    /\ Len(before) = 5 => after = before
                    /\ ToSet(after) \subseteq ToSet(before) \cup {sample}]_vars

\* C18 witness: a key holds 5 samples, one of them cut to 50 characters,
\* and the call that reported a sixth distinct one has left them as they
\* were.
C18_SixthSampleRefused ==
    /\ op = "DomAttributes.init"
    /\ "foo" \in DOMAIN arg[1]
    /\ "foo" \in DOMAIN buffer
    /\ Len(buffer["foo"]) = 5
    /\ \E i \in 1..5 : Len(buffer["foo"][i]) = 50
    /\ FirstChars(Str(arg[1]["foo"]), 50) \notin ToSet(buffer["foo"])

\* C19: the buffer loses samples and a record is emitted in a flush only:
\* every other step (attribute normalisation, tree construction, tree
\* query) keeps every key with the samples it had and emits nothing; a
\* flush emits one record with all keys and samples, none when the buffer
\* is empty, and leaves the buffer empty.
C19_EmptiedAndEmittedByFlushOnly ==
    [][IF op' = "flush"
       THEN /\ DOMAIN buffer' = {}
            /\ logged' = IF DOMAIN buffer = {} THEN None ELSE Some(buffer)
       ELSE /\ logged' = None
            /\ \A key \in DOMAIN buffer :
                 /\ key \in DOMAIN buffer'
                 /\ IsPrefix(buffer[key], buffer'[key])]_vars

\* C19 witness: a flush has emitted a record of two keys, one of them
\* reported by a tree construction, and left the buffer empty.
C19_FlushedTwoKeys ==
    /\ op = "flush"
    /\ logged # None
    /\ DOMAIN logged[1] = {"foo", "in_viewport"}
    /\ Len(logged[1]["foo"]) = 5
    /\ DOMAIN buffer = {}
    /\ dom # None

----------------------------------------------------------------------------
(* Claims about concurrent writers, checked under SpecBufferThreads *)

\* C20 (as claimed): with add_error calls and a flush interleaved at their
\* single reads and writes, no key ever holds more than 5 samples or a
\* sample twice, and no call fails because the buffer changed between its
\* check and its append.
C20_SafeUnderConcurrentWriters ==
    /\ BufferBounded(buffer)
    /\ \A t \in DOMAIN threads : threads[t].pc # "KeyError"

----------------------------------------------------------------------------
(* Further claims about the resolution pipeline, checked under Spec *)

\* The pairs of the running call's bundle.
PairsOfBundle == (1..Len(Selectors(bundle[1]))) \X Frames

\* C21: an exception of a count probe never ends the call: the loop goes
\* on to the next pair, a later pair that answers exactly 1 is accepted
\* (the first such pair of its candidate), and a call that ends inside the
\* loop ends with FailedUniqueLocatorResolutionError after every pair was
\* probed.
C21_ProbeErrorsSwallowed ==
    /\ (cand >= 1 /\ locator = None) =>
          /\ outcome.err # "PlaywrightError"
          /\ pc = "failed" =>
                /\ outcome = Raise("FailedUniqueLocatorResolutionError")
                /\ \A pair \in PairsOfBundle : nprobes[pair] = 1
    /\ (pc = "count" /\ "error" \in ToSet(seen)) => outcome = NoCall
    /\ (pc = "is_editable" /\ page # << >>) =>
          /\ page[locator[1].frame] = Ok(1)
          /\ \A f \in 1..(locator[1].frame - 1) : page[f] # Ok(1)

\* C21 witness: the first frame raised for the accepted candidate, an
\* earlier candidate raised in some frame too, and the pair of the second
\* frame was accepted.
C21_AcceptedAfterErrors ==
    /\ pc = "is_editable"
    /\ page # << >>
    /\ page[1].kind = "raise"
    /\ locator[1].frame = 2
    /\ "error" \in ToSet(seen)

\* The running or last call ended in the fallback: it started a lookup,
\* never reached the probing loop, and raised.
FallbackFailed ==
    /\ pc = "failed"
    /\ node # None
    /\ lookups = 1
    /\ cand = 0

\* C22: when the fallback lookup or the selector derivation returns
\* nothing, the call raises FailedNodeResolutionError, no candidate was
\* probed, and the node's selectors stay unset; the next resolution of the
\* same id starts the fallback lookup again.
C22_EmptyFallbackFailsAndLeavesCacheUnset ==
    [][/\ (/\ pc \in {"get_locator_for_node_id", "get_html_selector"}
           /\ pc' = "failed"
           /\ outcome'.err # "PlaywrightError") =>
             /\ outcome' = Raise("FailedNodeResolutionError")
             /\ nprobes' = NoProbes
             /\ locator' = None
             /\ selectors' = selectors
             /\ selectors[node[1].computed.obj] = None
       /\ (FallbackFailed /\ req' = req) =>
             /\ pc' = "get_locator_for_node_id"
             /\ lookups' = 1
             /\ selectors'[node'[1].computed.obj] = None]_vars

\* C22 witness: a call ended in the fallback with FailedNodeResolutionError
\* and left the node's selectors unset.
C22_FallbackCameBackEmpty ==
    /\ FallbackFailed
    /\ outcome = Raise("FailedNodeResolutionError")
    /\ selectors[node[1].computed.obj] = None
    /\ nprobes = NoProbes

\* The state probes a call makes once its element is known editable or
\* not, in their order.
ProbeOrder(is_editable) ==
    IF is_editable = Some(TRUE)
    THEN << "is_editable", "input_type", "visible", "enabled" >>
    ELSE << "is_editable", "visible", "enabled" >>

\* C23: the state probes come in the order editable, input type, visible,
\* enabled, the input type being probed if and only if the element was
\* probed editable; none comes before a pair was accepted, and a call that
\* returns has made them all.
C23_StateProbesInFixedOrder ==
    /\ order # << >> => locator # None
    /\ IsPrefix(order, ProbeOrder(probed.is_editable))
    /\ pc = "done" => order = ProbeOrder(probed.is_editable)
    /\ pc \in {"get_locator_for_node_id", "get_html_selector", "count"} =>
          order = << >>

\* C23 witness: a call returned after the four probes of an editable
\* element.
C23_EditableElementProbedFourTimes ==
    /\ pc = "done"
    /\ Len(order) = 4
    /\ probed.is_editable = Some(TRUE)

\* The ResolvedLocator of the call that returned.
Resolved == outcome.val[1].locator

\* C24 (as claimed): the ResolvedLocator returned carries the node's role,
\* the probed editability and input type, and the full bundle: every
\* candidate of the node's bundle is a candidate of the returned bundle,
\* the flags and iframe prefixes are those of the node's bundle, and the
\* accepted selector is the first candidate.
C24_FullBundleReturned ==
    pc = "done" =>
        /\ Resolved.role = node[1].role
        /\ Resolved.is_editable = probed.is_editable[1]
        /\ Resolved.input_type = probed.input_type
        /\ ToSet(Selectors(bundle[1])) \subseteq ToSet(Selectors(Resolved.selector))
        /\ Resolved.selector.in_iframe = bundle[1].in_iframe
        /\ Resolved.selector.in_shadow_root = bundle[1].in_shadow_root
        /\ Resolved.selector.iframe_parent_css_selectors =
                bundle[1].iframe_parent_css_selectors
        /\ Selectors(Resolved.selector)[1] = locator[1].selector

\* C24 (amended): the ResolvedLocator returned carries the node's role,
\* the probed editability and input type, and a bundle with the CSS and
\* XPath selectors, the notte selector, the flags and the iframe prefixes
\* of the node's bundle; its engine-specific selector is the accepted
\* selector, which makes that its first candidate.  The engine-specific
\* selector of the node's bundle is not in it unless it was the one
\* accepted; the node's cached bundle is left as it was.
C24_BundleReturnedWithAcceptedAsEngineSelector ==
    pc = "done" =>
        /\ Resolved.role = node[1].role
        /\ Resolved.is_editable = probed.is_editable[1]
        /\ Resolved.input_type = probed.input_type
        /\ probed.is_editable = Some(FALSE) => Resolved.input_type = None
        /\ Resolved.selector.playwright_selector = Some(locator[1].selector)
        /\ Selectors(Resolved.selector)[1] = locator[1].selector
        /\ Resolved.selector.css_selector = bundle[1].css_selector
        /\ Resolved.selector.xpath_selector = bundle[1].xpath_selector
        /\ Resolved.selector.notte_selector = bundle[1].notte_selector
        /\ Resolved.selector.in_iframe = bundle[1].in_iframe
        /\ Resolved.selector.in_shadow_root = bundle[1].in_shadow_root
        /\ Resolved.selector.iframe_parent_css_selectors =
                bundle[1].iframe_parent_css_selectors
        /\ ToSet(Selectors(Resolved.selector)) =
                {bundle[1].css_selector, bundle[1].xpath_selector,
                 locator[1].selector}
        /\ selectors[node[1].computed.obj] = bundle

\* C24 witness: the bundle had an engine-specific selector, the CSS
\* selector was accepted, and the bundle returned has lost the former.
C24_EngineSelectorDropped ==
    /\ pc = "done"
    /\ bundle[1].playwright_selector # None
    /\ locator[1].selector = bundle[1].css_selector
    /\ bundle[1].playwright_selector[1] \notin ToSet(Selectors(Resolved.selector))

----------------------------------------------------------------------------
(* A further claim about DomAttributes.init, checked under SpecBuffer *)

\* The call has left the samples of a key as they were.
NotRecorded(key) == SamplesOf(buffer', key) = SamplesOf(buffer, key)

\* The keys of kwargs stored in a field: the key "class" in class_name,
\* any other key without a disallowed prefix in the field its name is
\* with "_" for "-".
KeysStoredIn(kwargs, field) ==
    {k \in DOMAIN kwargs :
        \/ k = "class" /\ field = "class_name"
        \/ k # "class" /\ k \notin DroppedKeys /\ Underscored(k) = field}

\* C26: DomAttributes.init returns a record whatever keys it is given.  A
\* key that starts with data-, js, __ or g- reaches neither the record (a
\* field of its name stays None) nor the buffer; a key whose name, with
\* "_" for "-", is in excluded_keys leaves the buffer as it was; every
\* other key that is no field is a key of the buffer afterwards, with its
\* value's sample unless 5 were held; a key that is a field is stored in
\* it; and every field no key is stored in is None.
C26_UnknownKeysDroppedIgnoredOrRecorded ==
    [][op' = "DomAttributes.init" =>
        LET kwargs == arg'[1]
            record == ret'.val[1]
        IN  /\ ret'.kind = "ok"
            /\ \A k \in DOMAIN kwargs \ {"class"} :
                LET key == Underscored(k)
                IN  IF k \in DroppedKeys
                    THEN /\ NotRecorded(key)
                         /\ NotRecorded(k)
                         /\ (key \in AttributeFields /\ key \notin DOMAIN kwargs)
                                => record[key] = None
                    ELSE IF key \in AttributeFields
                    THEN record[key] = Some(kwargs[k]) /\ NotRecorded(key)
                    ELSE IF key \in {"style", "class", "ng_non_bindable"}
                    THEN NotRecorded(key)
                    ELSE /\ key \in DOMAIN buffer'
                         /\ Len(SamplesOf(buffer, key)) < 5 =>
                                FirstChars(Str(kwargs[k]), 50)
                                    \in ToSet(buffer'[key])
            /\ "class" \in DOMAIN kwargs =>
                    /\ record["class_name"] = Some(kwargs["class"])
                    /\ NotRecorded("class")
            /\ \A field \in AttributeFields :
                    KeysStoredIn(kwargs, field) = {} => record[field] = None
            /\ \A key \in DOMAIN buffer' \ DOMAIN buffer :
                    \E k \in DOMAIN kwargs \ DroppedKeys : Underscored(k) = key]_vars

\* C26 witness: one call was given a key with the prefix data-, the
\* ignored keys style and ng-non-bindable, the unknown key in-viewport and
\* two fields; the unknown key alone is in the buffer, with the one
\* sample of its value, and the field enabled, not given, is None.
C26_EachKindOfKeyGiven ==
    /\ op = "DomAttributes.init"
    /\ {"data-x", "style", "ng-non-bindable", "in-viewport"} \subseteq DOMAIN arg[1]
    /\ DOMAIN buffer = {"in_viewport"}
    /\ buffer["in_viewport"] = << Str(PyBool(TRUE)) >>
    /\ ret.kind = "ok"
    /\ ret.val[1]["hidden"] = Some(PyBool(TRUE))
    /\ ret.val[1]["enabled"] = None
    /\ ret.val[1]["data_src"] = None

----------------------------------------------------------------------------
(* A further claim about DomNode.from_a11y_node, checked under SpecTree *)

\* The node of a payload at a path.
RECURSIVE RawAt(_, _)
RawAt(n, path) ==
    IF path = << >> THEN n ELSE RawAt(n.children[Head(path)], Tail(path))

\* C25: in the graph from_a11y_node builds, the node made of each raw node
\* is of kind TEXT when the raw role is a known role of the textual
\* category, with an id or without; otherwise INTERACTION when the raw
\* node carries an id and OTHER when it carries none.  Its id and text are
\* the raw id and name; in_viewport, is_interactive, is_top_element and
\* shadow_root are the raw flags, false when absent; highlight_index is
\* the raw one, None when absent; and the selectors of every node are
\* None.
C25_KindByIdUnlessTextual ==
    dom # None =>
        /\ DOMAIN selectors = PayloadPaths(raw, << >>)
        /\ \A path \in PayloadPaths(raw, << >>) :
            LET r == RawAt(raw, path)
                d == NodeAt(path)
                given(flag) == IF r.engine[flag] = None THEN FALSE
                               ELSE r.engine[flag][1]
            IN  /\ d.type = IF r.role \in KnownRoles /\ RoleCategory(r.role) = "TEXT"
                            THEN "TEXT"
                            ELSE IF r.id # None THEN "INTERACTION"
                            ELSE "OTHER"
                /\ d.id = r.id
                /\ d.text = r.name
                /\ d.computed.in_viewport = r.in_viewport
                /\ d.computed.is_interactive = given("is_interactive")
                /\ d.computed.is_top_element = given("is_top_element")
                /\ d.computed.shadow_root = given("shadow_root")
                /\ d.computed.highlight_index = r.engine.highlight_index
                /\ selectors[path] = None

\* C25 witness: a graph was built in which a text with an id is of kind
\* TEXT and has the shadow_root flag it was given, next to a button of
\* kind INTERACTION with a highlight_index, below a root of kind OTHER
\* that was given no flag.
C25_TextWithIdBesideFlaggedButton ==
    /\ dom # None
    /\ Len(dom[1].children) = 2
    /\ dom[1].type = "OTHER"
    /\ raw.engine = NoEngineFlags
    /\ ~dom[1].computed.is_interactive
    /\ dom[1].children[1].type = "INTERACTION"
    /\ dom[1].children[1].computed.highlight_index = Some(3)
    /\ dom[1].children[1].computed.is_top_element
    /\ dom[1].children[2].type = "TEXT"
    /\ dom[1].children[2].id = Some("B2")
    /\ dom[1].children[2].computed.shadow_root
    /\ dom[1].children[2].computed.highlight_index = None
    /\ selectors[<< 2 >>] = None

----------------------------------------------------------------------------
(* A further claim about the resolution pipeline, checked under SpecFair *)

\* The (candidate, frame) pairs probed so far in the call.
ProbedPairs == {pair \in DOMAIN nprobes : nprobes[pair] > 0}

\* C27: within one resolution no (candidate, frame) pair is probed twice:
\* every probed pair is a candidate of the bundle with a live frame and
\* was probed once, so there are at most candidates x frames count probes;
\* each probe that does not end the search moves on to a later pair; and
\* every resolution that has started ends, with a locator returned or an
\* exception raised.
C27_EachPairProbedOnceAndCallEnds ==
    /\ [][/\ \A pair \in DOMAIN nprobes : nprobes'[pair] <= 1
          /\ ProbedPairs' # {} =>
                /\ bundle' # None
                /\ ProbedPairs' \subseteq
                        (1..Len(Selectors(bundle'[1]))) \X Frames
                /\ Cardinality(ProbedPairs') <=
                        Len(Selectors(bundle'[1])) * Cardinality(Frames)
          /\ (pc = "count" /\ pc' = "count") =>
                \/ cand' = cand /\ frame' > frame
                \/ cand' > cand]_vars
    /\ (pc \notin {"idle", "done", "failed"}) ~>
            (pc \in {"done", "failed"} /\ outcome.kind \in {"ok", "raise"})

\* C27 witness: a resolution has probed every pair of three candidates and
\* the live frames once, and has raised the unique-locator failure.
C27_AllPairsProbedOnce ==
    /\ pc = "failed"
    /\ outcome = Raise("FailedUniqueLocatorResolutionError")
    /\ Len(Selectors(bundle[1])) = MaxCandidates
    /\ \A pair \in (1..MaxCandidates) \X Frames : nprobes[pair] = 1

----------------------------------------------------------------------------
(* A claim about concurrent resolutions, checked under SpecTasks *)

\* The tasks that read a node's selectors as None and have not failed
\* before they could store a bundle.
SawUnset(obj) ==
    {t \in Tasks :
        /\ threads[t].node # None
        /\ threads[t].node[1].computed.obj = obj
        /\ \/ threads[t].pc \in {"get_locator_for_node_id", "get_html_selector"}
           \/ \E i \in 1..Len(order) : order[i].task = t}

\* C28: the resolver does not enforce that a node's selectors are set at
\* most once.  A task starts the fallback lookup exactly when it reads the
\* node's selectors as None, and between that read and its set_selectors
\* stand two awaits; when the derivation answers, the task stores its
\* bundle whatever the node's selectors are by then, and goes on with the
\* bundle it stored.  A second task that read None in between does the
\* same, so both look up and the later one overwrites.
C28_WriteNotGuardedByCache ==
    [][\A t \in Tasks :
        LET before == threads[t]
            after == threads'[t]
        IN  /\ (before.pc = "idle" /\ after.pc = "get_locator_for_node_id") =>
                    /\ selectors[after.node[1].computed.obj] = None
                    /\ lookups' = lookups + 1
            /\ (before.pc = "idle" /\ after.pc = "get_valid_locator") =>
                    /\ selectors[after.node[1].computed.obj] # None
                    /\ after.bundle = selectors[after.node[1].computed.obj]
                    /\ lookups' = lookups
            /\ (before.pc = "get_html_selector" /\ after.pc = "get_valid_locator") =>
                    /\ Len(order') = Len(order) + 1
                    /\ order'[Len(order')].task = t
                    /\ selectors'[after.node[1].computed.obj] =
                            Some(order'[Len(order')].selectors)
                    /\ after.bundle = Some(order'[Len(order')].selectors)]_vars

\* C28 witness: both tasks read the selectors of the same node as None,
\* both did the fallback lookup and both stored a bundle; the second
\* bundle, which differs from the first, replaced it.
C28_BothLookedUpAndWrote ==
    /\ lookups = 2
    /\ Len(order) = 2
    /\ order[1].task # order[2].task
    /\ order[1].obj = order[2].obj
    /\ order[1].selectors # order[2].selectors
    /\ selectors[order[2].obj] = Some(order[2].selectors)
    /\ SawUnset(order[1].obj) = Tasks
    /\ threads[order[1].task].bundle = Some(order[1].selectors)

----------------------------------------------------------------------------
(* Claims about RetryPipeWrapper.forward, checked under SpecRetry *)

\* The calls of the wrapped pipe that raised, of the running or last call
\* of forward.
FailedCalls == {i \in 1..Len(retry.calls) : retry.calls[i].kind = "raise"}

\* The wrapped pipe is called max_tries times at most, and a call that
\* returned was the last one: its result is what forward returns.
FirstSuccessReturned ==
    /\ Len(retry.calls) <= retry.max_tries
    /\ \A i \in 1..Len(retry.calls) :
            retry.calls[i].kind = "ok" =>
                /\ i = Len(retry.calls)
                /\ retry.pc = "done"
                /\ retry.outcome = retry.calls[i]
    /\ retry.pc = "done" =>
            /\ Len(retry.calls) >= 1
            /\ retry.calls[Len(retry.calls)].kind = "ok"

\* C29 (as claimed): forward calls the wrapped pipe max_tries times at
\* most, returns the result of the first call that succeeds without
\* another call, and raises LLMParsingError once max_tries calls have
\* failed in a row.
C29_ParsingErrorAfterMaxTriesFailures ==
    /\ FirstSuccessReturned
    /\ (retry.pc = "failed" /\ Cardinality(FailedCalls) = retry.max_tries)
            => retry.outcome = Raise("LLMParsingError")

\* C29 (amended): forward calls the wrapped pipe max_tries times at most
\* and returns the result of the first call that succeeds without another
\* call.  It raises LLMParsingError exactly when max_tries calls have
\* failed and none of them, the last included, with a context-length
\* message; errors then holds their messages in order.  When the last of
\* the failed calls, the max_tries-th or an earlier one, has such a
\* message the exception is ContextSizeTooLargeError.
C29_ParsingErrorAfterMaxTriesRetryableFailures ==
    /\ FirstSuccessReturned
    /\ retry.pc = "failed" =>
            /\ FailedCalls = 1..Len(retry.calls)
            /\ IF \E i \in FailedCalls : retry.calls[i].err \in ContextMessages
               THEN retry.outcome.err = "ContextSizeTooLargeError"
               ELSE /\ Len(retry.calls) = retry.max_tries
                    /\ retry.outcome = Raise("LLMParsingError")
                    /\ retry.errors = [i \in 1..Len(retry.calls) |-> retry.calls[i].err]
                    /\ retry.traced # None
                    /\ retry.traced[1].status = "failure"
                    /\ retry.traced[1].nb_retries = retry.max_tries
    /\ (retry.outcome = Raise("LLMParsingError")) =>
            /\ retry.pc = "failed"
            /\ Len(retry.calls) = retry.max_tries

\* C29 witness: the last of max_tries failed calls, after parsing
\* failures only, had a context-length message, and forward has raised
\* ContextSizeTooLargeError.
C29_LastTryFailedOnContextLength ==
    /\ retry.pc = "failed"
    /\ retry.max_tries = MaxTries
    /\ Len(retry.calls) = retry.max_tries
    /\ FailedCalls = 1..retry.max_tries
    /\ Len(retry.errors) = retry.max_tries - 1
    /\ retry.outcome.err = "ContextSizeTooLargeError"

\* C30: a failure of the wrapped pipe whose message asks to reduce the
\* length of the messages or completions is never retried: it is the last
\* call of the pipe, and forward has raised ContextSizeTooLargeError with
\* the sizes found in the message, or None for both, however many tries
\* were left; the message is not appended to errors.
C30_ContextLengthFailureNotRetried ==
    \A i \in 1..Len(retry.calls) :
        (retry.calls[i].kind = "raise" /\ retry.calls[i].err \in ContextMessages) =>
            /\ i = Len(retry.calls)
            /\ retry.pc = "failed"
            /\ retry.outcome.err = "ContextSizeTooLargeError"
            /\ retry.outcome.val \in
                    {<< [size |-> Some(9), max_size |-> Some(8)] >>,
                     << [size |-> None, max_size |-> None] >>}
            /\ retry.errors = [j \in 1..(i - 1) |-> retry.calls[j].err]
            /\ retry.last_error = Some(retry.calls[i].err)

\* C30 witness: the first call of a wrapper with tries to spare failed
\* with a context-length message that holds no sizes, and forward has
\* raised ContextSizeTooLargeError after that one call.
C30_RaisedAtOnceWithTriesLeft ==
    /\ retry.pc = "failed"
    /\ retry.max_tries = MaxTries
    /\ Len(retry.calls) = 1
    /\ retry.calls[1].err \in ContextMessages
    /\ retry.outcome = ContextSizeTooLargeError([size |-> None, max_size |-> None])

\* C31: forward_incremental never raises.  It calls the wrapped pipe
\* max_tries times at most and returns the result of the first call that
\* succeeds; once max_tries calls have failed, whatever their exceptions,
\* it returns an action space with an empty description whose actions are
\* those of the previous action list, in its order, each with the id,
\* description, category and params it had.
C31_PreviousActionsAfterMaxTriesFailures ==
    LET calls == retry.incremental_calls
        failed == {i \in 1..Len(calls) : calls[i].kind = "raise"}
    IN  /\ Len(calls) <= retry.max_tries
        /\ retry.pc = "pipe.forward_incremental" =>
                /\ failed = 1..Len(calls)
                /\ Len(calls) < retry.max_tries
        /\ retry.pc = "returned" =>
                /\ retry.outcome.kind = "ok"
                /\ IF failed = 1..Len(calls)
                   THEN /\ Len(calls) = retry.max_tries
                        /\ retry.outcome.val[1].description = ""
                        /\ Len(retry.outcome.val[1].actions) =
                                Len(retry.previous_action_list)
                        /\ \A i \in 1..Len(retry.previous_action_list) :
                            LET act == retry.previous_action_list[i]
                                kept == retry.outcome.val[1].actions[i]
                            IN  /\ kept.id = act.id
                                /\ kept.description = act.description
                                /\ kept.category = act.category
                                /\ kept.params = act.params
                   ELSE /\ failed = 1..(Len(calls) - 1)
                        /\ retry.outcome = calls[Len(calls)]

\* C31 witness: every one of max_tries calls failed, one of them with a
\* context-length message, and forward_incremental has returned the two
\* previous actions in their order.
C31_FellBackToTwoPreviousActions ==
    /\ retry.pc = "returned"
    /\ retry.max_tries = MaxTries
    /\ Len(retry.incremental_calls) = MaxTries
    /\ \A i \in 1..MaxTries : retry.incremental_calls[i].kind = "raise"
    /\ \E i \in 1..MaxTries : retry.incremental_calls[i].err \in ContextMessages
    /\ Len(retry.previous_action_list) = 2
    /\ retry.previous_action_list[1].id = "I1"
    /\ retry.outcome.val[1].actions[1].id = "I1"
    /\ retry.outcome.val[1].actions[2].id = "B1"

\* C38 as claimed: on a tree built by from_a11y_node, interaction_nodes()
\* does not raise, each node it returns has an id and no children, and
\* every id find() returns a node for is the id of a node it returns.
C38_EveryFoundIdAmongInteractionNodes ==
    op = "interaction_nodes" =>
        /\ ret.kind = "ok"
        /\ \A i \in 1..Len(ret.val[1]) :
                /\ ret.val[1][i].id # None
                /\ ret.val[1][i].children = << >>
        /\ \A id \in RequestIds :
                Find(dom[1], id).kind = "ok" =>
                    \E i \in 1..Len(ret.val[1]) : ret.val[1][i].id = Some(id)

\* C38 amended: on a tree built by from_a11y_node, interaction_nodes()
\* does not raise, each node it returns has an id and no children, and
\* every id find() returns a node of a NodeRole role for is the id of a
\* node it returns; a node find() returns whose role is a plain string is
\* never among them.
C38_FoundIdsOfKnownRolesAmongInteractionNodes ==
    op = "interaction_nodes" =>
        /\ ret.kind = "ok"
        /\ \A i \in 1..Len(ret.val[1]) :
                /\ ret.val[1][i].id # None
                /\ ret.val[1][i].children = << >>
                /\ ret.val[1][i].role \in KnownRoles
        /\ \A id \in RequestIds :
                LET found == Find(dom[1], id)
                IN  (found.kind = "ok" /\ found.val[1].role \in KnownRoles) =>
                        \E i \in 1..Len(ret.val[1]) :
                            ret.val[1][i].id = Some(id)

\* C38 witness: interaction_nodes() returned one node while find() returns
\* nodes for two ids, the other one on a node of a role that is no NodeRole,
\* in a tree that also has a text node with an id.
C38_FoundNodeOfUnknownRoleLeftOut ==
    /\ op = "interaction_nodes"
    /\ ret.kind = "ok"
    /\ Len(ret.val[1]) = 1
    /\ \E id \in RequestIds :
            /\ Find(dom[1], id).kind = "ok"
            /\ Find(dom[1], id).val[1].role \notin KnownRoles
            /\ \A i \in 1..Len(ret.val[1]) : ret.val[1][i].id # Some(id)
    /\ \E i \in 1..Len(Nodes(dom[1])) :
            Nodes(dom[1])[i].id # None /\ Nodes(dom[1])[i].type # "INTERACTION"

\* C39 as claimed: building the tree of a payload whose nodes have no keys
\* but role, name, children, id and the flags of the engine (in_viewport,
\* is_interactive, is_top_element, shadow_root, highlight_index) leaves the
\* diagnostic buffer as it was, empty: no flag is recorded as an unknown
\* attribute.
C39_EngineFlagsNotRecorded ==
    (/\ op = "from_a11y_node"
     /\ \A path \in PayloadPaths(raw, << >>) :
            DOMAIN RawAt(raw, path).attrs = {}) =>
        buffer = EmptyBuffer

\* C40: the ResolvedLocator of the action forward() returned, built by
\* compute_attributes, and that of every action SimpleActionSpacePipe made
\* by node_to_executable, has no input_type when it is not editable; the
\* locators of node_to_executable are never editable.
C40_InputTypeOnlyWhenEditable ==
    /\ (pc = "done" /\ outcome.kind = "ok") =>
            (~outcome.val[1].locator.is_editable =>
                outcome.val[1].locator.input_type = None)
    /\ (pc = "listed" /\ outcome.kind = "ok") =>
            \A i \in 1..Len(outcome.val[1]) :
                /\ ~outcome.val[1][i].locator.is_editable
                /\ outcome.val[1][i].locator.input_type = None

\* C40 witness: both buttons were listed by the simple pipe after a
\* resolution whose element was found visible, enabled and not editable.
C40_ListedAfterResolvingNonEditable ==
    /\ pc = "listed"
    /\ outcome.kind = "ok"
    /\ Len(outcome.val[1]) = 2
    /\ probed.is_editable = Some(FALSE)
    /\ probed.visible = Some(TRUE)
    /\ probed.enabled = Some(TRUE)

----------------------------------------------------------------------------
(* Claims about the Conversation, checked under SpecConversation *)

AddCalls ==
    {"add_system_message", "add_user_message", "add_assistant_message",
     "add_tool_message"}

IsSuffix(s, t) ==
    /\ Len(s) <= Len(t)
    /\ s = SubSeq(t, Len(t) - Len(s) + 1, Len(t))

\* C32: with autosize on, a call of trim_history_to_fit or of an add
\* method keeps every system message of the history, in their order, and
\* the messages of the other roles it keeps are the newest ones, a suffix
\* of those there were; an add method then appends its message.
C32_TrimKeepsSystemAndNewestOthers ==
    [][(conversation.autosize
        /\ conversation'.op \in AddCalls \cup {"trim_history_to_fit"}) =>
            LET after == conversation'.history
                kept == IF conversation'.op \in AddCalls
                        THEN SubSeq(after, 1, Len(after) - 1)
                        ELSE after
            IN  /\ SelectSeq(kept, IsSystem) =
                        SelectSeq(conversation.history, IsSystem)
                /\ IsSuffix(SelectSeq(kept, IsNotSystem),
                            SelectSeq(conversation.history, IsNotSystem))
                /\ conversation'.removed =
                        Len(conversation.history) - Len(kept)]_vars

\* C32 witness: with autosize on, add_user_message removed the oldest
\* message of two that were no system messages and kept the other and the
\* system message.
C32_OldestRemovedSystemKept ==
    /\ conversation.autosize
    /\ conversation.op = "add_user_message"
    /\ conversation.removed = 1
    /\ Len(conversation.history) = 3
    /\ conversation.history[1].role = "system"
    /\ conversation.history[2].role = "assistant"
    /\ conversation.history[3].role = "user"

\* C37 as claimed: total_tokens() is the sum of the token counts of the
\* messages of the history, in every state of a Conversation.
C37_TotalTokensIsSumOfHistory ==
    conversation.total_tokens = SumTokens(conversation.history)

----------------------------------------------------------------------------
(* Claims about the environment, checked under SpecEnv and SpecEnvFair *)

\* C34: the trajectory never holds more than max_steps entries, whatever
\* methods were called; a step whose _preobserve is called on a trajectory
\* of max_steps entries raises MaxStepsReachedError and leaves the
\* trajectory and the context as they were.
C34_TrajectoryWithinMaxSteps ==
    /\ [](Len(env.trajectory) <= env.max_steps)
    /\ [][(env'.preobserve = "called"
           /\ Len(env.trajectory) >= env.max_steps) =>
                /\ env'.outcome = Raise("MaxStepsReachedError")
                /\ env'.pc = "idle"
                /\ env'.trajectory = env.trajectory
                /\ env'.context = env.context]_vars

\* C34 witness: the controller ran an action on a full trajectory and
\* _preobserve refused the step.
C34_RefusedAfterActionOnFullTrajectory ==
    /\ env.call = "execute"
    /\ env.executed
    /\ env.preobserve = "called"
    /\ env.outcome = Raise("MaxStepsReachedError")
    /\ env.max_steps = MaxSteps
    /\ Len(env.trajectory) = MaxSteps

\* C35 as claimed: on a context that was observed, execute and step raise
\* InvalidActionError, with neither the resolution pipe nor the controller
\* called, for an id that is no special browser action and no interaction
\* node of the context; they never raise it for a special id.
C35_UnknownIdsRejectedSpecialIdsNot ==
    [][(env.pc = "idle" /\ env.context # None
        /\ env'.call \in {"execute", "step"}) =>
            /\ (~IsSpecial(env'.action_id)
                /\ env'.action_id \notin InodeIds[env.context[1]]) =>
                    /\ env'.outcome = Raise("InvalidActionError")
                    /\ ~env'.resolved
                    /\ ~env'.executed
            /\ IsSpecial(env'.action_id) =>
                    env'.outcome # Raise("InvalidActionError")]_vars

\* C36: a call of observe, step or raw_step observes the page again at
\* most max_retry times; observing again takes one from the budget, which
\* was positive, and appends one trajectory step; with no budget left the
\* call ends in that run of _observe, a changed snapshot notwithstanding,
\* without another trajectory step; every call of _observe ends.
C36_ReobservesWithinBudgetAndEnds ==
    /\ [](env.reobserved <= env.max_retry /\ env.retry >= 0)
    /\ [][(env.pc = "_observe" /\ env'.reobserved # env.reobserved) =>
                /\ env.retry > 0
                /\ env'.snapshot_changed
                /\ env'.reobserved = env.reobserved + 1
                /\ env'.retry = env.retry - 1
                /\ Len(env'.trajectory) = Len(env.trajectory) + 1]_vars
    /\ [][(env.pc = "_observe" /\ env.retry = 0) =>
                /\ env'.pc = "idle"
                /\ env'.trajectory = env.trajectory
                /\ env'.reobserved = env.reobserved]_vars
    /\ (env.pc = "_observe" ~> env.pc = "idle")

\* C36 witness: the budget was used up and the observation was returned
\* although the snapshot had changed once more.
C36_ReturnedOnChangedSnapshotWithoutBudget ==
    /\ env.call = "observe"
    /\ env.pc = "idle"
    /\ env.outcome = Ok("obs")
    /\ env.snapshot_changed
    /\ env.max_retry = MaxRetry
    /\ env.reobserved = MaxRetry
    /\ env.retry = 0

----------------------------------------------------------------------------
(* Claims about resolve_selector_locators, checked under SpecSelect *)

\* The positions of the nodes that match the option of the action, and of
\* the nodes of a selector role.
OptionPositions ==
    {i \in 1..Len(arg[2]) :
        \/ arg[1].option_id # None /\ arg[2][i].id = arg[1].option_id[1]
        \/ /\ arg[1].value # None
           /\ arg[2][i].text = arg[1].value[1]
           /\ arg[2][i].role = "option"}

SelectorPositions ==
    {i \in 1..Len(arg[2]) : arg[2][i].role \in {"combobox", "listbox", "list"}}

Least(S) == CHOOSE i \in S : \A j \in S : i <= j
Greatest(S) == CHOOSE i \in S : \A j \in S : j <= i

====
